---- MODULE Spec2Model ----
(***************************************************************************)
(* Order intake and order lifecycle of changcafe_bot.                      *)
(*                                                                         *)
(* The store (users, orders) is the PostgreSQL database behind SQLAlchemy: *)
(* `users` and `orders` hold the committed rows, sess[r] the rows a        *)
(* session has flushed inside a transaction that is still open.  Every     *)
(* `await` of a handler that touches the store is one step, so handlers    *)
(* interleave exactly at the points where asyncio can switch tasks.        *)
(***************************************************************************)
EXTENDS Integers, Sequences, FiniteSets, TLC

\* ------------------------------------------------------------------ bounds
NumReqs == 2            \* webhook deliveries in flight
NumTempIds == 2         \* outcomes of random.randint modelled
NumChats == 2           \* concurrent UserRepository.get_or_create calls
NumOrders == 1          \* orders present when the lifecycle operations start
NumClaimers == 2        \* concurrent assign_to_operator calls
MaxClock == 2           \* ticks of the clock
NumAttempts == 2        \* concurrent status-writing calls on orders
MaxMessages == 3        \* rows of table messages
MaxItems == 3           \* payment[i] indices a payload can carry
MaxNow == 5
BurstLen == 8
MaxEvents == 5

TempIdLo == 10000000    \* random.randint(10000000, 99999999)

Reqs == 1..NumReqs
TempIds == TempIdLo..(TempIdLo + NumTempIds - 1)
Chats == 1..NumChats
Claimers == 1..NumClaimers
Attempters == 1..NumAttempts

\* ------------------------------------------------------------- value domains
Null == "NULL"                      \* SQL NULL / Python None in a text column
NullId == -1                        \* SQL NULL in an integer or timestamp column
Absent == "ABSENT"                  \* key missing from form_data
ExtIds == {"E1", "E2"}              \* formid values
Phones == {"P1", "P2"}
Names == {"Ann"}
Emails == {"ann@x"}
Secret == "default_webhook_secret"  \* config.webhook_signing_secret
OtherKey == "not_the_secret"

\* Raw request bodies: an unparseable body, or a form with each key present
\* or missing.
FormBodies ==
    [parse_ok : {TRUE},
     formid : ExtIds \cup {"", Absent},
     phone : Phones \cup {Absent},
     name : Names \cup {Absent},
     email : Emails \cup {Absent}]

GarbageBody ==
    [parse_ok |-> FALSE, formid |-> Absent, phone |-> Absent,
     name |-> Absent, email |-> Absent]

Bodies == FormBodies \cup {GarbageBody}

\* form_data.get(key, default)
FormGet(form, key, default) ==
    IF form[key] = Absent THEN default ELSE form[key]

\* hmac.new(key, msg, sha256).hexdigest(): a function of key and message, equal
\* for two inputs only when both are equal.
Hmac(key, msg) == <<"hmac_sha256", key, msg>>

EmptySig == << >>                   \* headers.get("X-Tilda-Signature", "")
NonAsciiSig == <<"non-ascii">>      \* a header value with a byte above 0x7f

\* The header values tried against a body: none, one that is not ASCII, the
\* digest of the body under the secret, under another key, and the digest of
\* a different body under the secret (a replayed signature).
SigHeaders(body) ==
    {EmptySig, NonAsciiSig, Hmac(Secret, body), Hmac(OtherKey, body),
     Hmac(Secret, GarbageBody)}

\* hmac.compare_digest(a, b) on two str: TypeError when either holds a
\* non-ASCII character, otherwise whether they are equal.
CompareDigest(a, b) ==
    IF a = NonAsciiSig \/ b = NonAsciiSig THEN "TypeError"
    ELSE IF a = b THEN "equal" ELSE "differ"

\* ------------------------------------------------------------------ state
VARIABLES
    users,      \* committed rows of table users
    orders,     \* committed rows of table orders
    order_seq,  \* sequence behind orders.id
    sess,       \* sess[r]: user rows flushed but not committed by request r
    req,        \* req[r]: position and locals of webhook delivery r
    tasks,      \* background tasks enqueued and not yet run
    notified,   \* outcomes of notify_operator_async
    chat,       \* chat[c]: position and locals of a get_or_create call
    clock,      \* what datetime.utcnow() returns
    claim,      \* claim[k]: position and locals of an assign_to_operator call
    call,       \* the last status-writing call and how it ended
    attempt,    \* attempt[a]: position and locals of an in-flight order call
    start,      \* start[c]: position and locals of a /start handler run
    contact,    \* the last phone update and how it ended
    messages,   \* committed rows of table messages
    fetched,    \* what the last get_order_messages call returned
    extract,    \* a form payload and what the webhook extracts from it
    fsm,        \* fsm[c]: the FSM state of chat user c
    config,     \* config.settings.config
    routed,     \* the last event offered to the operator router
    user_requests,  \* ThrottlingMiddleware.user_requests
    now,        \* what datetime.now() returns
    passed,     \* passed[u]: times of u's events handed on, last window
    verdict     \* what the middleware did with the last event

vars == <<users, orders, order_seq, sess, req, tasks, notified, chat,
          clock, claim, call, attempt, start, contact, messages, fetched,
          extract, fsm, config, routed, user_requests, now, passed, verdict>>

webhookVars == <<users, orders, order_seq, sess, req, tasks, notified>>

opVars == <<clock, claim, call, attempt, start, contact>>

routeVars == <<config, routed>>

throttleVars == <<user_requests, now, passed, verdict>>

botVars == <<fsm, routeVars, throttleVars>>

otherVars == <<messages, fetched, extract, botVars>>

\* ------------------------------------------------------------------ rows
UserRow(uid, uname, fname, ph, em) ==
    [user_id |-> uid, username |-> uname, first_name |-> fname,
     phone |-> ph, email |-> em, role |-> "client"]

\* The table without its unique constraints on username, phone and email:
\* only the primary key is left.
UserConflictKeyOnly(row, rows) == \E u \in rows : u.user_id = row.user_id

\* The unique constraints of table users: primary key user_id, and username,
\* phone, email each unique among the non-NULL values.
UserConflict(row, rows) ==
    \E u \in rows :
        \/ u.user_id = row.user_id
        \/ row.username # Null /\ u.username = row.username
        \/ row.phone # Null /\ u.phone = row.phone
        \/ row.email # Null /\ u.email = row.email

OrderStatus ==
    {"new", "awaiting_confirmation", "waiting_operator", "awaiting_payment",
     "paid", "in_delivery", "completed", "cancelled"}

\* tilda.py 224-232: ", ".join(filter(None, [street, "d. " + home])) for a
\* form without street, home and apartment keys.
FullAddress == "d. "

\* Order(...) as create_from_webhook builds it; the other columns are NULL.
\* The forms carry no payment[i][title] and no amount key: items is the empty
\* list and base_amount is float(0).
NewOrder(id, ext, tname, tphone) ==
    [id |-> id, external_order_id |-> ext, user_id |-> NullId,
     tilda_name |-> tname, tilda_phone |-> tphone,
     address |-> FullAddress, items |-> << >>, base_amount |-> 0,
     confirmed_phone |-> Null, payment_link |-> Null, tracking_link |-> Null,
     status |-> "new", assigned_to |-> NullId, assigned_at |-> NullId]

\* The table without unique=True on external_order_id.
OrderConflictOff(ext, rows) == FALSE

\* The unique constraint on orders.external_order_id.
OrderConflict(ext, rows) == \E o \in rows : o.external_order_id = ext

\* ------------------------------------------------------------- responses
NoLink == << >>
DeepLink(ext) == <<"https://t.me/changcafe_bot?start=order_", ext>>

Response(code, detail, ext, link) ==
    [code |-> code, detail |-> detail, order_id |-> ext, deep_link |-> link]

NoResponse == Response(0, "", Absent, NoLink)

NoUserRow == UserRow(NullId, Null, Null, Null, Null)

\* auth, parsed, resolved and raised record what happened to the request
\* (whether the signature equalled the HMAC, whether the body was handed to
\* the parser, the user_id get_or_create_by_phone returned, which exception
\* ended it); the handler itself never reads them.
IdleReq ==
    [pc |-> "idle", form |-> GarbageBody, order_id |-> Absent,
     auth |-> "none", parsed |-> FALSE, resolved |-> NullId,
     user |-> NullId, newuser |-> NoUserRow, raised |-> "",
     resp |-> NoResponse]

\* The request ends: its response and what was recorded about it stay, the
\* handler's locals (form_data, user) go.
Finish(rq, exc, resp) ==
    [rq EXCEPT !.pc = "done", !.form = GarbageBody, !.user = NullId,
               !.newuser = NoUserRow, !.raised = exc, !.resp = resp]

\* ------------------------------------------------------- webhook: steps 1-3
\* Lines 86-103: read header and body, compare the signature.  A TypeError of
\* compare_digest is caught by the handler's `except Exception` (305-312).
VerifyFrom(r, bodies) ==
    /\ req[r].pc = "idle"
    /\ \E body \in bodies : \E sig \in SigHeaders(body) :
         LET cmp == CompareDigest(sig, Hmac(Secret, body))
             seen == [req EXCEPT ![r].form = body,
                                 ![r].auth = IF sig = Hmac(Secret, body)
                                             THEN "match" ELSE "mismatch"]
         IN  CASE cmp = "TypeError" ->
                    req' = [seen EXCEPT ![r] = Finish(@, "TypeError",
                               Response(500, "Internal server error",
                                        Absent, NoLink))]
               [] cmp = "differ" ->
                    req' = [seen EXCEPT ![r] = Finish(@, "HTTPException",
                               Response(403, "Invalid signature",
                                        Absent, NoLink))]
               [] cmp = "equal" ->
                    req' = [seen EXCEPT ![r].pc = "parse"]
    /\ UNCHANGED <<otherVars, users, orders, order_seq, sess, tasks, notified, chat, opVars>>

Verify(r) == VerifyFrom(r, Bodies)

\* A handler that takes the order id as it comes, without `if not order_id`.
ParseNoFormidCheck(r) ==
    /\ req[r].pc = "parse"
    /\ LET form == req[r].form
           order_id == FormGet(form, "formid", "")
           parsed == [req EXCEPT ![r].parsed = TRUE]
       IN  IF ~form.parse_ok
           THEN req' = [parsed EXCEPT ![r] = Finish(@, "HTTPException",
                           Response(400, "Invalid request format",
                                    Absent, NoLink))]
           ELSE req' = [parsed EXCEPT ![r].pc = "dedup",
                                      ![r].order_id = order_id]
    /\ UNCHANGED <<otherVars, users, orders, order_seq, sess, tasks, notified, chat, opVars>>

\* Lines 112-145: request.form() / request.json(), then the formid check
\* `if not order_id`, which a missing key and an empty value both fail.
Parse(r) ==
    /\ req[r].pc = "parse"
    /\ LET form == req[r].form
           order_id == FormGet(form, "formid", Absent)
           parsed == [req EXCEPT ![r].parsed = TRUE]
       IN  IF ~form.parse_ok
           THEN req' = [parsed EXCEPT ![r] = Finish(@, "HTTPException",
                           Response(400, "Invalid request format",
                                    Absent, NoLink))]
           ELSE IF order_id = Absent \/ order_id = ""
           THEN req' = [parsed EXCEPT ![r] = Finish(@, "HTTPException",
                           Response(400, "Missing formid", Absent, NoLink))]
           ELSE req' = [parsed EXCEPT ![r].pc = "dedup",
                                      ![r].order_id = order_id]
    /\ UNCHANGED <<otherVars, users, orders, order_seq, sess, tasks, notified, chat, opVars>>

\* ------------------------------------------------------- webhook: step 4
\* select(Order).where(Order.external_order_id == external_order_id)
GetByExternalId(ext) == {o \in orders : o.external_order_id = ext}

\* A duplicate that is acknowledged but notifies the operator once more.
DedupRenotify(r) ==
    /\ req[r].pc = "dedup"
    /\ LET order_id == req[r].order_id
       IN  IF GetByExternalId(order_id) # {}
           THEN /\ req' = [req EXCEPT ![r] = Finish(@, "",
                               Response(200, "Already processed",
                                        order_id, NoLink))]
                /\ tasks' = tasks \cup {[req |-> r, order_id |-> order_id]}
           ELSE /\ req' = [req EXCEPT ![r].pc = "user_select"]
                /\ tasks' = tasks
    /\ UNCHANGED <<otherVars, users, orders, order_seq, sess, notified, chat, opVars>>

\* Lines 157-167: get_by_external_id reads the committed rows; a hit answers
\* "Already processed" and leaves the session without writing.
Dedup(r) ==
    /\ req[r].pc = "dedup"
    /\ LET order_id == req[r].order_id
       IN  IF GetByExternalId(order_id) # {}
           THEN req' = [req EXCEPT ![r] = Finish(@, "",
                           Response(200, "Already processed",
                                    order_id, NoLink))]
           ELSE req' = [req EXCEPT ![r].pc = "user_select"]
    /\ UNCHANGED <<otherVars, users, orders, order_seq, sess, tasks, notified, chat, opVars>>

\* The arguments the handler passes to get_or_create_by_phone (174-179).
PhoneOf(form) == FormGet(form, "phone", "")
NameOf(form) == FormGet(form, "name", "Guest")
EmailOf(form) == FormGet(form, "email", "")

\* select(User).where(User.phone == phone) ... .first()
GetByPhone(phone) == {u \in users : u.phone = phone}

\* user_service.py 18-38: look the phone up; when there is no row, build the
\* new User with a random temp_id.
UserSelect(r) ==
    /\ req[r].pc = "user_select"
    /\ LET form == req[r].form
           found == GetByPhone(PhoneOf(form))
       IN  IF found # {}
           THEN \E u \in found :
                    req' = [req EXCEPT ![r].pc = "create",
                                       ![r].user = u.user_id,
                                       ![r].resolved = u.user_id]
           ELSE \E temp_id \in TempIds :
                    req' = [req EXCEPT ![r].pc = "user_flush",
                               ![r].newuser = UserRow(temp_id, Null, NameOf(form),
                                                      PhoneOf(form), EmailOf(form))]
    /\ UNCHANGED <<otherVars, users, orders, order_seq, sess, tasks, notified, chat, opVars>>

\* Rows that other open transactions have inserted and not yet committed: an
\* INSERT that collides with one of them waits for that transaction to end.
PendingElsewhere(r) == UNION {sess[q] : q \in Reqs \ {r}}

\* get_or_create_by_phone committing the new row instead of flushing it.
UserFlushCommits(r) ==
    /\ req[r].pc = "user_flush"
    /\ LET row == req[r].newuser
       IN  /\ ~UserConflict(row, PendingElsewhere(r))
           /\ IF UserConflict(row, users)
              THEN /\ req' = [req EXCEPT ![r].pc = "user_reselect"]
                   /\ users' = users
              ELSE /\ req' = [req EXCEPT ![r].pc = "create",
                                         ![r].user = row.user_id,
                                         ![r].resolved = row.user_id]
                   /\ users' = users \cup {row}
    /\ UNCHANGED <<otherVars, sess, orders, order_seq, tasks, notified, chat,
                   opVars>>

\* user_service.py 40-48: session.add(user); await session.flush().  The
\* INSERT waits on a colliding uncommitted row, fails with IntegrityError on
\* a colliding committed row, and otherwise stays pending in the session.
UserFlush(r) ==
    /\ req[r].pc = "user_flush"
    /\ LET row == req[r].newuser
       IN  /\ ~UserConflict(row, PendingElsewhere(r))
           /\ IF UserConflict(row, users)
              THEN /\ req' = [req EXCEPT ![r].pc = "user_reselect"]
                   /\ sess' = sess
              ELSE /\ req' = [req EXCEPT ![r].pc = "create",
                                         ![r].user = row.user_id,
                                         ![r].resolved = row.user_id]
                   /\ sess' = [sess EXCEPT ![r] = {row}]
    /\ UNCHANGED <<otherVars, users, orders, order_seq, tasks, notified, chat, opVars>>

\* get_or_create_by_phone without its except clause.
UserReselectNoCatch(r) ==
    /\ req[r].pc = "user_reselect"
    /\ req' = [req EXCEPT ![r] = Finish(@, "IntegrityError:user",
                   Response(500, "Internal server error", Absent, NoLink))]
    /\ sess' = [sess EXCEPT ![r] = {}]
    /\ UNCHANGED <<otherVars, users, orders, order_seq, tasks, notified, chat, opVars>>

\* get_or_create_by_phone starting over when the second lookup finds no row.
UserReselectRetry(r) ==
    /\ req[r].pc = "user_reselect"
    /\ LET found == GetByPhone(PhoneOf(req[r].form))
       IN  IF found # {}
           THEN \E u \in found :
                    req' = [req EXCEPT ![r].pc = "create",
                                       ![r].user = u.user_id,
                                       ![r].resolved = u.user_id]
           ELSE req' = [req EXCEPT ![r].pc = "user_select"]
    /\ sess' = [sess EXCEPT ![r] = {}]
    /\ UNCHANGED <<otherVars, users, orders, order_seq, tasks, notified, chat,
                   opVars>>

\* user_service.py 46-58: except IntegrityError: rollback, look the phone up
\* again, return the row or re-raise; the re-raised error reaches the
\* handler's `except Exception` (tilda.py 305-312).
UserReselect(r) ==
    /\ req[r].pc = "user_reselect"
    /\ LET found == GetByPhone(PhoneOf(req[r].form))
       IN  IF found # {}
           THEN \E u \in found :
                    req' = [req EXCEPT ![r].pc = "create",
                                       ![r].user = u.user_id,
                                       ![r].resolved = u.user_id]
           ELSE req' = [req EXCEPT ![r] = Finish(@, "IntegrityError:user",
                           Response(500, "Internal server error",
                                    Absent, NoLink))]
    /\ sess' = [sess EXCEPT ![r] = {}]
    /\ UNCHANGED <<otherVars, users, orders, order_seq, tasks, notified, chat, opVars>>

\* The handler enqueueing notify_operator_async before the insert.
CreateOrderNotifyFirst(r) ==
    /\ req[r].pc = "create"
    /\ LET form == req[r].form
           order_id == req[r].order_id
       IN  /\ tasks' = tasks \cup {[req |-> r, order_id |-> order_id]}
           /\ IF OrderConflict(order_id, orders)
              THEN /\ req' = [req EXCEPT ![r] =
                               Finish(@, "IntegrityError:order",
                                      Response(500, "Failed to create order",
                                               Absent, NoLink))]
                   /\ UNCHANGED <<users, orders>>
              ELSE /\ orders' = orders \cup
                           {NewOrder(order_seq + 1, order_id, NameOf(form),
                                     PhoneOf(form))}
                   /\ users' = users \cup sess[r]
                   /\ req' = [req EXCEPT ![r] = Finish(@, "",
                                  Response(200, "", order_id,
                                           DeepLink(order_id)))]
    /\ order_seq' = order_seq + 1
    /\ sess' = [sess EXCEPT ![r] = {}]
    /\ UNCHANGED <<otherVars, notified, chat, opVars>>

\* tilda.py 238-296 with create_from_webhook (repositories.py 219-236):
\* INSERT the order and COMMIT the session, which publishes the pending user
\* row with it.  On IntegrityError the handler rolls back and answers 500;
\* otherwise it enqueues notify_operator_async and answers ok.
CreateOrder(r) ==
    /\ req[r].pc = "create"
    /\ LET form == req[r].form
           order_id == req[r].order_id
       IN  IF OrderConflict(order_id, orders)
           THEN /\ req' = [req EXCEPT ![r] = Finish(@, "IntegrityError:order",
                               Response(500, "Failed to create order",
                                        Absent, NoLink))]
                /\ UNCHANGED <<users, orders, tasks>>
           ELSE /\ orders' = orders \cup
                        {NewOrder(order_seq + 1, order_id, NameOf(form),
                                  PhoneOf(form))}
                /\ users' = users \cup sess[r]
                /\ tasks' = tasks \cup {[req |-> r, order_id |-> order_id]}
                /\ req' = [req EXCEPT ![r] = Finish(@, "",
                               Response(200, "", order_id,
                                        DeepLink(order_id)))]
    /\ order_seq' = order_seq + 1
    /\ sess' = [sess EXCEPT ![r] = {}]
    /\ UNCHANGED <<otherVars, notified, chat, opVars>>

\* A background task whose failed send takes the Order back out of the store.
NotifyOperatorUndo ==
    /\ \E t \in tasks : \E delivered \in BOOLEAN :
         /\ tasks' = tasks \ {t}
         /\ notified' = notified \cup
                {[order_id |-> t.order_id, delivered |-> delivered]}
         /\ orders' = IF delivered THEN orders
                      ELSE {o \in orders : o.external_order_id # t.order_id}
    /\ UNCHANGED <<otherVars, users, order_seq, sess, req, chat, opVars>>

\* tilda.py 319-362: the background task sends to the operator; a failure of
\* the send is logged and swallowed.
NotifyOperator ==
    /\ \E t \in tasks : \E delivered \in BOOLEAN :
         /\ tasks' = tasks \ {t}
         /\ notified' = notified \cup
                {[order_id |-> t.order_id, delivered |-> delivered]}
    /\ UNCHANGED <<otherVars, users, orders, order_seq, sess, req, chat, opVars>>

\* ------------------------------------------- UserRepository.get_or_create
ChatIds == {501, 502}               \* message.from_user.id
Usernames == {Null, "unknown", "ann"}
FirstNames == {"", "Ann"}

NoChange == "NOCHANGE"

\* `not value` for a text column: NULL and the empty string are falsy.
Falsy(v) == v = Null \/ v = ""

IdleChat ==
    [pc |-> "idle", user_id |-> NullId, username |-> Null, first_name |-> "",
     found |-> FALSE, set_username |-> NoChange, set_first_name |-> NoChange,
     result |-> "none"]

\* repositories.py 81-110: SELECT by user_id; on a hit set username and
\* first_name on the loaded object where the stored value is empty, on a
\* miss build the new User.  Nothing is written before the commit.
GetOrCreateSelectFrom(c, unames, fnames) ==
    /\ chat[c].pc = "idle"
    /\ \E uid \in ChatIds, uname \in unames, fname \in fnames :
         LET hit == {u \in users : u.user_id = uid}
             begun == [chat[c] EXCEPT !.pc = "commit", !.user_id = uid,
                                     !.username = uname, !.first_name = fname]
         IN  IF hit # {}
             THEN \E u \in hit :
                    chat' = [chat EXCEPT ![c] =
                        [begun EXCEPT
                            !.found = TRUE,
                            !.set_username =
                                IF ~Falsy(uname) /\ Falsy(u.username)
                                THEN uname ELSE NoChange,
                            !.set_first_name =
                                IF ~Falsy(fname) /\ Falsy(u.first_name)
                                THEN fname ELSE NoChange]]
             ELSE chat' = [chat EXCEPT ![c] = begun]
    /\ UNCHANGED <<otherVars, webhookVars, opVars>>

GetOrCreateSelect(c) == GetOrCreateSelectFrom(c, Usernames, FirstNames)

\* The row an UPDATE of the changed attributes leaves behind.
Updated(u, c) ==
    [u EXCEPT !.username = IF chat[c].set_username = NoChange
                           THEN @ ELSE chat[c].set_username,
              !.first_name = IF chat[c].set_first_name = NoChange
                             THEN @ ELSE chat[c].set_first_name]

\* repositories.py 112-115: await self.session.commit() flushes the INSERT
\* (or the UPDATE of the changed attributes) and commits.  The method has no
\* except clause: an IntegrityError of the flush leaves it as an exception.
GetOrCreateCommit(c) ==
    /\ chat[c].pc = "commit"
    /\ IF chat[c].found
       THEN LET cur == {u \in users : u.user_id = chat[c].user_id}
                new == {Updated(u, c) : u \in cur}
            IN  IF \E n \in new : n.username # Null /\ n.username # ""
                                  /\ chat[c].set_username # NoChange
                                  /\ \E o \in users \ cur :
                                        o.username = n.username
                THEN /\ chat' = [chat EXCEPT ![c].pc = "done",
                                             ![c].result = "IntegrityError"]
                     /\ users' = users
                ELSE /\ chat' = [chat EXCEPT ![c].pc = "done",
                                             ![c].result = "returned"]
                     /\ users' = (users \ cur) \cup new
       ELSE LET row == UserRow(chat[c].user_id, chat[c].username,
                               chat[c].first_name, Null, Null)
            IN  IF UserConflict(row, users)
                THEN /\ chat' = [chat EXCEPT ![c].pc = "done",
                                             ![c].result = "IntegrityError"]
                     /\ users' = users
                ELSE /\ chat' = [chat EXCEPT ![c].pc = "done",
                                             ![c].result = "returned"]
                     /\ users' = users \cup {row}
    /\ UNCHANGED <<otherVars, orders, order_seq, sess, req, tasks, notified, opVars>>

\* ----------------------------------------------------- order lifecycle
OperatorIds == {601, 602}           \* query.from_user.id of a claim
PayLinks == {"https://pay/1"}
TrackLinks == {"https://go/1"}

IdleClaim ==
    [pc |-> "idle", order_id |-> 0, operator_id |-> NullId,
     prev_to |-> NullId, prev_at |-> NullId, ret_to |-> NullId]

NoCall == [op |-> "none", order_id |-> 0, result |-> "none"]

\* UPDATE orders SET ... WHERE id = :order_id
UpdateWhereId(order_id, values) ==
    {IF o.id = order_id
     THEN [f \in DOMAIN o |-> IF f \in DOMAIN values THEN values[f] ELSE o[f]]
     ELSE o : o \in orders}

OrderIds == {o.id : o \in orders}

\* ForeignKey("users.user_id") of orders.user_id and orders.assigned_to.
ForeignKeyOk(uid) == \E u \in users : u.user_id = uid

\* Every method below runs its UPDATE, commits and returns the row read
\* back; none raises on the status it finds.
Returned(op, order_id) ==
    call' = [op |-> op, order_id |-> order_id, result |-> "returned"]

\* repositories.py 361-389
LinkUser ==
    /\ \E order_id \in OrderIds, user_id \in ChatIds, phone \in Phones :
         LET Set == [user_id |-> user_id,
                                 confirmed_phone |-> phone,
                                 status |-> "waiting_operator"]
         IN  IF ForeignKeyOk(user_id)
             THEN /\ orders' = UpdateWhereId(order_id, Set)
                  /\ Returned("link_user", order_id)
             ELSE /\ orders' = orders
                  /\ call' = [op |-> "link_user", order_id |-> order_id,
                              result |-> "IntegrityError"]
    /\ UNCHANGED <<otherVars, users, order_seq, sess, req, tasks, notified, chat,
                   clock, claim, attempt, start, contact>>

\* repositories.py 391-412
UpdateStatus ==
    /\ \E order_id \in OrderIds, status \in OrderStatus :
         LET Set == [status |-> status]
         IN  /\ orders' = UpdateWhereId(order_id, Set)
             /\ Returned("update_status", order_id)
    /\ UNCHANGED <<otherVars, users, order_seq, sess, req, tasks, notified, chat,
                   clock, claim, attempt, start, contact>>

\* repositories.py 450-469
SetPaymentLink ==
    /\ \E order_id \in OrderIds, payment_link \in PayLinks :
         LET Set == [payment_link |-> payment_link,
                                 status |-> "awaiting_payment"]
         IN  /\ orders' = UpdateWhereId(order_id, Set)
             /\ Returned("set_payment_link", order_id)
    /\ UNCHANGED <<otherVars, users, order_seq, sess, req, tasks, notified, chat,
                   clock, claim, attempt, start, contact>>

\* repositories.py 471-490
SetTrackingLink ==
    /\ \E order_id \in OrderIds, tracking_link \in TrackLinks :
         LET Set == [tracking_link |-> tracking_link,
                                 status |-> "in_delivery"]
         IN  /\ orders' = UpdateWhereId(order_id, Set)
             /\ Returned("set_tracking_link", order_id)
    /\ UNCHANGED <<otherVars, users, order_seq, sess, req, tasks, notified, chat,
                   clock, claim, attempt, start, contact>>

\* orders.py 92-107
SvcUpdateOrderStatus ==
    /\ \E order_id \in OrderIds, new_status \in OrderStatus :
         LET Set == [status |-> new_status]
         IN  /\ orders' = UpdateWhereId(order_id, Set)
             /\ Returned("svc_update_order_status", order_id)
    /\ UNCHANGED <<otherVars, users, order_seq, sess, req, tasks, notified, chat,
                   clock, claim, attempt, start, contact>>

\* orders.py 113-130
SvcSetPaymentLink ==
    /\ \E order_id \in OrderIds, payment_link \in PayLinks :
         LET Set == [payment_link |-> payment_link,
                                 status |-> "awaiting_payment"]
         IN  /\ orders' = UpdateWhereId(order_id, Set)
             /\ Returned("svc_set_payment_link", order_id)
    /\ UNCHANGED <<otherVars, users, order_seq, sess, req, tasks, notified, chat,
                   clock, claim, attempt, start, contact>>

\* orders.py 136-151
SvcConfirmOrder ==
    /\ \E order_id \in OrderIds :
         LET Set == [status |-> "waiting_operator"]
         IN  /\ orders' = UpdateWhereId(order_id, Set)
             /\ Returned("svc_confirm_order", order_id)
    /\ UNCHANGED <<otherVars, users, order_seq, sess, req, tasks, notified, chat,
                   clock, claim, attempt, start, contact>>

\* orders.py 157-172
SvcCancelOrder ==
    /\ \E order_id \in OrderIds :
         LET Set == [status |-> "cancelled"]
         IN  /\ orders' = UpdateWhereId(order_id, Set)
             /\ Returned("svc_cancel_order", order_id)
    /\ UNCHANGED <<otherVars, users, order_seq, sess, req, tasks, notified, chat,
                   clock, claim, attempt, start, contact>>

\* orders.py 178-193
SvcMarkAsDelivered ==
    /\ \E order_id \in OrderIds :
         LET Set == [status |-> "completed"]
         IN  /\ orders' = UpdateWhereId(order_id, Set)
             /\ Returned("svc_mark_as_delivered", order_id)
    /\ UNCHANGED <<otherVars, users, order_seq, sess, req, tasks, notified, chat,
                   clock, claim, attempt, start, contact>>

\* Time passes.
Tick ==
    /\ clock < MaxClock
    /\ clock' = clock + 1
    /\ UNCHANGED <<otherVars, webhookVars, chat, claim, call, attempt, start, contact>>

\* assign_to_operator writing the assignee without the time.
AssignUpdateNoTimestamp(k) ==
    /\ claim[k].pc = "idle"
    /\ \E o \in orders, operator_id \in OperatorIds :
         LET Set == [assigned_to |-> operator_id]
         IN  /\ ForeignKeyOk(operator_id)
             /\ orders' = UpdateWhereId(o.id, Set)
             /\ claim' = [claim EXCEPT ![k] =
                    [pc |-> "refetch", order_id |-> o.id,
                     operator_id |-> operator_id,
                     prev_to |-> o.assigned_to, prev_at |-> o.assigned_at,
                     ret_to |-> NullId]]
    /\ UNCHANGED <<otherVars, users, order_seq, sess, req, tasks, notified,
                   chat, clock, call, attempt, start, contact>>

\* repositories.py 431-440: UPDATE orders SET assigned_to, assigned_at WHERE
\* id = :order_id, and commit.  prev_to and prev_at record what the row held
\* before the UPDATE; the method does not read them.
AssignUpdate(k) ==
    /\ claim[k].pc = "idle"
    /\ \E o \in orders, operator_id \in OperatorIds :
         LET Set == [assigned_to |-> operator_id, assigned_at |-> clock]
         IN  /\ ForeignKeyOk(operator_id)
             /\ orders' = UpdateWhereId(o.id, Set)
             /\ claim' = [claim EXCEPT ![k] =
                    [pc |-> "refetch", order_id |-> o.id,
                     operator_id |-> operator_id,
                     prev_to |-> o.assigned_to, prev_at |-> o.assigned_at,
                     ret_to |-> NullId]]
    /\ UNCHANGED <<otherVars, users, order_seq, sess, req, tasks, notified, chat,
                   clock, call, attempt, start, contact>>

\* repositories.py 448: return await self.get_by_id_with_relations(order_id)
AssignRefetch(k) ==
    /\ claim[k].pc = "refetch"
    /\ \E o \in orders :
         /\ o.id = claim[k].order_id
         /\ claim' = [claim EXCEPT ![k].pc = "done",
                                   ![k].ret_to = o.assigned_to]
    /\ UNCHANGED <<otherVars, webhookVars, chat, clock, call, attempt, start, contact>>

\* ------------------------------------------- /start and phone updates
\* Text is a sequence of pieces, " " the whitespace between words.  The
\* start parameter of a deep link is what follows "?start=" in it, and
\* tapping the link sends "/start <parameter>".
StartParam(link) == <<"order_", link[2]>>

StartText(link) == <<"/start", " ">> \o StartParam(link)

RECURSIVE SplitWords(_, _, _)
SplitWords(text, word, words) ==
    LET closed == IF word = << >> THEN words ELSE Append(words, word)
    IN  IF text = << >> THEN closed
        ELSE IF Head(text) = " " THEN SplitWords(Tail(text), << >>, closed)
        ELSE SplitWords(Tail(text), Append(word, Head(text)), words)

\* message.text.split()
Split(text) == SplitWords(text, << >>, << >>)

\* client.py 72-73: args = message.text.split();
\* order_external_id = args if len(args) > 1 else None.
OrderExternalId(text) ==
    LET args == Split(text)
    IN  IF Len(args) > 1 THEN [kind |-> "list", val |-> args]
        ELSE [kind |-> "None", val |-> << >>]

\* get_by_external_id with the value cmd_start passes: a str is compared with
\* the column; a list is not a value of the column, the driver either
\* refuses it or the comparison matches no row.
StartLookup(v) ==
    IF v.kind = "str"
    THEN IF \E o \in orders : <<o.external_order_id>> = v.val
         THEN {"found"} ELSE {"not_found"}
    ELSE {"DBAPIError", "not_found"}

\* ext records the external id of the link that was tapped, resolved the
\* external id of the Order shown to the client.
IdleStart == [pc |-> "idle", ext |-> Null, outcome |-> "none",
              resolved |-> Null]

\* client.py 56-141: /start.  Without a parameter the menu is shown.  With
\* one, the Order is looked up; "not found" is answered, an exception is
\* caught by the handler's `except Exception`.  On a hit the handler goes on
\* to get_or_create(..., phone=None), a keyword the method does not have:
\* TypeError, caught the same way, before the Order is shown.
CmdStart(c) ==
    /\ start[c].pc = "idle"
    /\ \/ start' = [start EXCEPT ![c] =
                [IdleStart EXCEPT !.pc = "done", !.outcome = "menu"]]
       \/ \E r \in Reqs :
            /\ req[r].pc = "done"
            /\ req[r].resp.deep_link # NoLink
            /\ LET link == req[r].resp.deep_link
                   order_external_id == OrderExternalId(StartText(link))
               IN  \E found \in StartLookup(order_external_id) :
                     start' = [start EXCEPT ![c] =
                        [IdleStart EXCEPT
                            !.pc = "done",
                            !.ext = link[2],
                            !.outcome = IF found = "found"
                                        THEN "TypeError" ELSE found]]
    /\ UNCHANGED <<otherVars, webhookVars, chat, clock, claim, call, attempt, contact>>

NoContact == [op |-> "none", user_id |-> NullId, phone |-> Null,
              result |-> "none"]

\* Rows inserted by transactions that are still open.
PendingAll == UNION {sess[q] : q \in Reqs}

\* The unique constraint on users.phone, as an UPDATE of one row meets it.
PhoneTaken(user_id, phone, rows) ==
    \E u \in rows : u.user_id # user_id /\ u.phone = phone

\* UPDATE users SET phone = :phone WHERE user_id = :user_id, and commit: no
\* row, a row whose new phone another row holds (IntegrityError, which
\* neither caller catches), or the row updated.  The UPDATE waits while an
\* open transaction holds the phone.
SetPhone(op, user_id, phone) ==
    LET cur == {u \in users : u.user_id = user_id}
        ended(result) == contact' = [op |-> op, user_id |-> user_id,
                                     phone |-> phone, result |-> result]
    IN  IF cur = {}
        THEN users' = users /\ ended("no_user")
        ELSE /\ ~PhoneTaken(user_id, phone, PendingAll)
             /\ IF PhoneTaken(user_id, phone, users)
                THEN users' = users /\ ended("IntegrityError")
                ELSE /\ users' = (users \ cur) \cup
                                    {[u EXCEPT !.phone = phone] : u \in cur}
                     /\ ended("updated")

\* update_phone on a table users without unique=True on phone.
UpdatePhoneNoUnique ==
    /\ \E user_id \in ChatIds, phone \in Phones :
         LET cur == {u \in users : u.user_id = user_id}
         IN  /\ users' = (users \ cur) \cup
                             {[u EXCEPT !.phone = phone] : u \in cur}
             /\ contact' = [op |-> "update_phone", user_id |-> user_id,
                            phone |-> phone,
                            result |-> IF cur = {} THEN "no_user"
                                       ELSE "updated"]
    /\ UNCHANGED <<otherVars, orders, order_seq, sess, req, tasks, notified, chat,
                   clock, claim, call, attempt, start>>

\* repositories.py 148-167: UserRepository.update_phone.
UpdatePhone ==
    /\ \E user_id \in ChatIds, phone \in Phones :
         SetPhone("update_phone", user_id, phone)
    /\ UNCHANGED <<otherVars, orders, order_seq, sess, req, tasks, notified, chat,
                   clock, claim, call, attempt, start>>

\* common.py 46-73: handle_contact reads the sender's row and, when there is
\* one, runs the same UPDATE and commits; without a row it answers "user not
\* found".
HandleContact ==
    /\ \E user_id \in ChatIds, phone \in Phones :
         SetPhone("handle_contact", user_id, phone)
    /\ UNCHANGED <<otherVars, orders, order_seq, sess, req, tasks, notified, chat,
                   clock, claim, call, attempt, start>>

\* ------------------------------------------- order calls in flight
\* A status-writing call from the moment it is made: the UPDATE and its
\* commit, the read of the row that is returned, and for receive_payment_link
\* (operator.py 531-589) the message to the client.
AttemptOps == {"receive_payment_link", "cancel_order", "set_tracking_link"}

\* found, racing, applied, ret_user and notify record what happened (the
\* status the UPDATE found, the other calls on the same Order that had been
\* made and had not written yet, whether the UPDATE was applied, the user_id
\* of the row read back, how the send ended); only ret_user is read, by
\* `if order.user:`.
IdleAttempt ==
    [pc |-> "idle", op |-> "none", order_id |-> 0, link |-> Null,
     found |-> "none", racing |-> {}, applied |-> FALSE, ret_user |-> NullId,
     notify |-> "none"]

\* The link argument of each call.
AttemptLinks(op) ==
    IF op = "receive_payment_link" THEN PayLinks
    ELSE IF op = "set_tracking_link" THEN TrackLinks
    ELSE {Null}

\* The .values(...) of each call's UPDATE: repositories.py 460-463 and
\* 481-484, orders.py 164-166.
AttemptValues(op, link) ==
    IF op = "receive_payment_link"
    THEN [payment_link |-> link, status |-> "awaiting_payment"]
    ELSE IF op = "set_tracking_link"
    THEN [tracking_link |-> link, status |-> "in_delivery"]
    ELSE [status |-> "cancelled"]

\* The call is made with its arguments: receive_payment_link takes order_id
\* from the FSM data and payment_link from the message text (538-540).
AttemptStarts(a, ops) ==
    /\ attempt[a].pc = "idle"
    /\ \E op \in ops, order_id \in OrderIds :
         \E link \in AttemptLinks(op) :
            attempt' = [attempt EXCEPT ![a] =
                [IdleAttempt EXCEPT !.pc = "write", !.op = op,
                                    !.order_id = order_id, !.link = link]]

AttemptBeginFrom(a, ops) ==
    /\ AttemptStarts(a, ops)
    /\ UNCHANGED <<otherVars, webhookVars, chat, clock, claim, call, start, contact>>

AttemptBegin(a) == AttemptBeginFrom(a, AttemptOps)

ReceivePaymentLinkBegin(a) == AttemptBeginFrom(a, {"receive_payment_link"})

\* session.execute(update ... where id = :order_id) and session.commit(): the
\* row is written whatever status it holds.
AttemptWrite(a) ==
    /\ attempt[a].pc = "write"
    /\ \E o \in orders :
         /\ o.id = attempt[a].order_id
         /\ orders' = UpdateWhereId(o.id,
                          AttemptValues(attempt[a].op, attempt[a].link))
         /\ attempt' = [attempt EXCEPT
                ![a].pc = "refetch",
                ![a].found = o.status,
                ![a].applied = TRUE,
                ![a].racing = {b \in Attempters \ {a} :
                                  /\ attempt[b].pc = "write"
                                  /\ attempt[b].order_id = o.id}]
    /\ UNCHANGED <<otherVars, users, order_seq, sess, req, tasks, notified, chat,
                   clock, claim, call, start, contact>>

\* return await self.get_by_id_with_relations(order_id) /
\* OrderService.get_order(order_id, session)
AttemptRefetch(a) ==
    /\ attempt[a].pc = "refetch"
    /\ \E o \in orders :
         /\ o.id = attempt[a].order_id
         /\ attempt' = [attempt EXCEPT
                ![a].pc = IF attempt[a].op = "receive_payment_link"
                          THEN "notify" ELSE "done",
                ![a].ret_user = o.user_id]
    /\ UNCHANGED <<otherVars, webhookVars, chat, clock, claim, call, start, contact>>

\* operator.py 551-577: `if order.user:` send the link to the client; a
\* failure of the send is caught, logged and reported to the operator.
AttemptNotify(a) ==
    /\ attempt[a].pc = "notify"
    /\ IF attempt[a].ret_user = NullId
       THEN attempt' = [attempt EXCEPT ![a].pc = "done",
                                       ![a].notify = "skipped"]
       ELSE \E outcome \in {"sent", "failed"} :
                attempt' = [attempt EXCEPT ![a].pc = "done",
                                           ![a].notify = outcome]
    /\ UNCHANGED <<otherVars, webhookVars, chat, clock, claim, call, start, contact>>

\* operator.py 437-490: take_order starts with
\* int(query.data.split(":")), an int() of a list: TypeError, caught by the
\* handler's `except Exception`, which answers with the error.  The lines
\* that assign the Order and notify the client do not run.
TakeOrderFails ==
    call' = [op |-> "take_order", order_id |-> 0, result |-> "TypeError"]

TakeOrder ==
    /\ TakeOrderFails
    /\ UNCHANGED <<otherVars, webhookVars, chat, clock, claim, attempt, start, contact>>

\* ------------------------------------------------------------ the bot
\* The FSM states this model follows; "none" is the cleared state.
WaitingPhone == "waiting_phone_confirmation"

\* No event has been offered to the operator router.
NoEvent == [sender |-> NullId, handler |-> "none", handled |-> FALSE]

\* The middleware has seen no event; seen counts the events it is called
\* with from the initial state on.
NoVerdict == [user_id |-> NullId, outcome |-> "none", seen |-> 0]

\* No chat session is in a state, the operator is configured, nothing has
\* been routed or throttled.
InitBot ==
    /\ fsm = [c \in ChatIds |-> "none"]
    /\ config = [operator_telegram_id |-> 601]
    /\ routed = NoEvent
    /\ user_requests = [u \in ChatIds |-> << >>]
    /\ now = 0
    /\ passed = [u \in ChatIds |-> << >>]
    /\ verdict = NoVerdict

\* ------------------------------------------------- the operator router
\* from_user.id of an incoming event; NullId is an event without from_user.
EventSenders == OperatorIds \cup {NullId}

\* What config.operator_telegram_id can hold: Optional[int] = None.
OperatorSettings == {NullId, 601}

\* operator.py 43: operator_only = F.from_user.id == config.operator_telegram_id.
\* The filter with no comparison left: any event that has a sender passes.
OperatorOnlyOff(sender) == sender # NullId

\* The magic filter reads from_user.id and compares it with the configured
\* id: an event without from_user is rejected at the attribute, an unset id
\* (None) equals no sender's id.
OperatorOnly(sender) ==
    /\ sender # NullId
    /\ config.operator_telegram_id # NullId
    /\ sender = config.operator_telegram_id

\* The router offers the event to the handler whose filters it passes.
Offer(sender, handler) ==
    routed' = [sender |-> sender, handler |-> handler,
               handled |-> OperatorOnly(sender)]

\* operator.py 437-438: @router.callback_query(..."op_take_order:",
\* operator_only) in front of take_order.
TakeOrderEvent ==
    /\ \E sender \in EventSenders :
         /\ Offer(sender, "take_order")
         /\ IF OperatorOnly(sender) THEN TakeOrderFails ELSE call' = call
    /\ UNCHANGED <<messages, fetched, extract, fsm, config, throttleVars,
                   webhookVars, chat, clock, claim, attempt, start, contact>>

\* operator.py 531-532: @router.message(..., operator_only) in front of
\* receive_payment_link, entered with the order id in the FSM data.
ReceivePaymentLinkEvent(a) ==
    /\ \E sender \in EventSenders :
         /\ Offer(sender, "receive_payment_link")
         /\ IF OperatorOnly(sender)
            THEN AttemptStarts(a, {"receive_payment_link"})
            ELSE attempt' = attempt
    /\ UNCHANGED <<messages, fetched, extract, fsm, config, throttleVars,
                   webhookVars, chat, clock, claim, call, start, contact>>

\* operator.py 64, 112, 194, 269, 326, 596, 607: the panel, the three order
\* lists, the order card, the menu and the help carry operator_only too;
\* they read and write nothing.
OperatorViews == {"cmd_operator", "show_new_orders", "show_my_orders",
                  "show_in_delivery", "show_order_details"}

ViewEvent ==
    /\ \E sender \in EventSenders, view \in OperatorViews :
         Offer(sender, view)
    /\ UNCHANGED <<messages, fetched, extract, fsm, config, throttleVars,
                   webhookVars, chat, opVars>>

\* ---------------------------------------------- ThrottlingMiddleware
\* throttling.py 29-30
max_requests == 10
time_window == 5

\* throttling.py 57-60: the request times less than time_window old at t.
Recent(times, t) == SelectSeq(times, LAMBDA x : t - x < time_window)

\* The middleware recording the event it turns away.
ThrottleRecordsDropped(user_id) ==
    /\ verdict.seen < MaxEvents
    /\ LET kept == Recent(user_requests[user_id], now)
       IN  /\ user_requests' =
                [user_requests EXCEPT ![user_id] = Append(kept, now)]
           /\ IF Len(kept) >= max_requests
              THEN /\ verdict' = [user_id |-> user_id, outcome |-> "dropped",
                                  seen |-> verdict.seen + 1]
                   /\ passed' = passed
              ELSE /\ verdict' = [user_id |-> user_id, outcome |-> "handled",
                                  seen |-> verdict.seen + 1]
                   /\ passed' = [passed EXCEPT ![user_id] = Append(@, now)]
    /\ UNCHANGED <<messages, fetched, extract, fsm, routeVars, now,
                   webhookVars, chat, opVars>>

\* throttling.py 32-78: a message or a callback query of user_id.  The
\* user's list is pruned to the last time_window seconds; with max_requests
\* entries left the event is answered "too often" and not handed on, else
\* its time is appended and the handler is called.
Throttle(user_id) ==
    /\ verdict.seen < MaxEvents
    /\ LET kept == Recent(user_requests[user_id], now)
       IN  IF Len(kept) >= max_requests
           THEN /\ user_requests' = [user_requests EXCEPT ![user_id] = kept]
                /\ verdict' = [user_id |-> user_id, outcome |-> "dropped",
                               seen |-> verdict.seen + 1]
                /\ passed' = passed
           ELSE /\ user_requests' =
                     [user_requests EXCEPT ![user_id] = Append(kept, now)]
                /\ verdict' = [user_id |-> user_id, outcome |-> "handled",
                               seen |-> verdict.seen + 1]
                /\ passed' = [passed EXCEPT ![user_id] = Append(@, now)]
    /\ UNCHANGED <<messages, fetched, extract, fsm, routeVars, now,
                   webhookVars, chat, opVars>>

\* throttling.py 42-47: an update that is neither a message nor a callback
\* query goes to the handler uncounted.
PassThrough ==
    /\ verdict.seen < MaxEvents
    /\ verdict' = [user_id |-> NullId, outcome |-> "handled",
                   seen |-> verdict.seen + 1]
    /\ UNCHANGED <<messages, fetched, extract, fsm, routeVars, user_requests,
                   now, passed, webhookVars, chat, opVars>>

\* A second passes; passed keeps the times of the last time_window seconds.
Second ==
    /\ now < MaxNow
    /\ now' = now + 1
    /\ passed' = [u \in ChatIds |-> Recent(passed[u], now + 1)]
    /\ UNCHANGED <<messages, fetched, extract, fsm, routeVars, user_requests,
                   verdict, webhookVars, chat, opVars>>

NextThrottle ==
    \/ \E user_id \in ChatIds : Throttle(user_id)
    \/ PassThrough
    \/ Second

\* ------------------------------------------------------------ specifications
\* No get_order_messages call has returned yet.
NoFetch == [order_id |-> 0, rows |-> << >>]

\* No payload has been handed to the extraction steps.
NoExtract == [pc |-> "none"]

Init ==
    /\ users = {}
    /\ orders = {}
    /\ order_seq = 0
    /\ sess = [r \in Reqs |-> {}]
    /\ req = [r \in Reqs |-> IdleReq]
    /\ tasks = {}
    /\ notified = {}
    /\ chat = [c \in Chats |-> IdleChat]
    /\ clock = 1
    /\ claim = [k \in Claimers |-> IdleClaim]
    /\ call = NoCall
    /\ attempt = [a \in Attempters |-> IdleAttempt]
    /\ start = [c \in Chats |-> IdleStart]
    /\ contact = NoContact
    /\ messages = {}
    /\ fetched = NoFetch
    /\ extract = NoExtract
    /\ InitBot

\* Webhook deliveries, any payloads, any interleaving.
Next ==
    \/ \E r \in Reqs : Verify(r)
    \/ \E r \in Reqs : Parse(r)
    \/ \E r \in Reqs : Dedup(r)
    \/ \E r \in Reqs : UserSelect(r)
    \/ \E r \in Reqs : UserFlush(r)
    \/ \E r \in Reqs : UserReselect(r)
    \/ \E r \in Reqs : CreateOrder(r)
    \/ NotifyOperator

Spec == Init /\ [][Next]_vars

\* Webhook deliveries that all carry the same, not yet known phone: the
\* concurrent get_or_create_by_phone calls for one phone.
SamePhoneBodies == {b \in FormBodies : b.phone = "P1"}

VerifySamePhone(r) == VerifyFrom(r, SamePhoneBodies)

NextPhone ==
    \/ \E r \in Reqs : VerifySamePhone(r)
    \/ \E r \in Reqs : Parse(r)
    \/ \E r \in Reqs : Dedup(r)
    \/ \E r \in Reqs : UserSelect(r)
    \/ \E r \in Reqs : UserFlush(r)
    \/ \E r \in Reqs : UserReselect(r)
    \/ \E r \in Reqs : CreateOrder(r)

SpecPhone == Init /\ [][NextPhone]_vars

\* First chat contacts: concurrent UserRepository.get_or_create calls.
NextChat ==
    \/ \E c \in Chats : GetOrCreateSelect(c)
    \/ \E c \in Chats : GetOrCreateCommit(c)

SpecChat == Init /\ [][NextChat]_vars

\* ------------------------------------------------------------- messages
Texts == {"hi", "ok"}
Directions == {"to_client", "to_operator"}
Senders == {501, 601}

\* Message(order_id, sender_id, text, direction); id is the autoincrement
\* key and timestamp the column default datetime.utcnow.
MessageRow(id, order_id, sender_id, text, direction, timestamp) ==
    [id |-> id, order_id |-> order_id, sender_id |-> sender_id,
     text |-> text, direction |-> direction, timestamp |-> timestamp]

\* repositories.py 506-535: MessageRepository.save adds the row and commits.
\* ForeignKey("orders.id") and ForeignKey("users.user_id") refuse a row for
\* an order or a sender that does not exist.
Save ==
    /\ Cardinality(messages) < MaxMessages
    /\ \E order_id \in 1..(NumOrders + 1), sender_id \in Senders,
          text \in Texts, direction \in Directions :
         IF order_id \in OrderIds /\ ForeignKeyOk(sender_id)
         THEN /\ messages' = messages \cup
                    {MessageRow(Cardinality(messages) + 1, order_id,
                                sender_id, text, direction, clock)}
              /\ Returned("save", order_id)
         ELSE /\ messages' = messages
              /\ call' = [op |-> "save", order_id |-> order_id,
                          result |-> "IntegrityError"]
    /\ UNCHANGED <<users, orders, order_seq, sess, req, tasks, notified, chat,
                   clock, claim, attempt, start, contact, fetched, extract,
                   botVars>>

\* The sequences that list every row of rows once.
Listings(rows) ==
    {q \in [1..Cardinality(rows) -> rows] :
        \A i, j \in 1..Cardinality(rows) : i # j => q[i] # q[j]}

\* ORDER BY timestamp ASC: rows with equal timestamps come in any order.
OrderedByTimestamp(q) ==
    \A i, j \in 1..Len(q) : i < j => q[i].timestamp <= q[j].timestamp

\* get_order_messages without .order_by: the rows in any order.
GetOrderMessagesUnordered ==
    /\ \E order_id \in 1..(NumOrders + 1) :
         \E q \in Listings({m \in messages : m.order_id = order_id}) :
            fetched' = [order_id |-> order_id, rows |-> q]
    /\ UNCHANGED <<users, orders, order_seq, sess, req, tasks, notified, chat,
                   opVars, messages, extract, botVars>>

\* repositories.py 537-558: SELECT ... WHERE order_id = :order_id ORDER BY
\* timestamp ASC.
GetOrderMessages ==
    /\ \E order_id \in 1..(NumOrders + 1) :
         \E q \in Listings({m \in messages : m.order_id = order_id}) :
            /\ OrderedByTimestamp(q)
            /\ fetched' = [order_id |-> order_id, rows |-> q]
    /\ UNCHANGED <<users, orders, order_seq, sess, req, tasks, notified, chat,
                   opVars, messages, extract, botVars>>

\* client.py 385-440: receive_message_for_operator, entered with the order id
\* in the FSM data, calls message_repo.create; MessageRepository has no
\* method create, the AttributeError is answered as an error and no row is
\* written.
ReceiveMessageForOperator ==
    /\ \E order_id \in 1..NumOrders :
         call' = [op |-> "receive_message_for_operator",
                  order_id |-> order_id, result |-> "AttributeError"]
    /\ UNCHANGED <<otherVars, users, orders, order_seq, sess, req, tasks,
                   notified, chat, clock, claim, attempt, start, contact>>

\* ------------------------------------------- webhook: items, address, amount
\* A payload as the extraction steps read it (tilda.py 198-246).  item[i + 1]
\* stands for the keys payment[i][...]: NoItem when payment[i][title] is not
\* a key of the form, else the texts of price and quantity (Absent when the
\* key is missing).  amount is the text of the amount key.  A text is a
\* number only when Numerals knows it.
NoItem == [title |-> Absent, price |-> Absent, quantity |-> Absent]

PriceTexts == {"10", "x"}
QuantityTexts == {Absent, "2", "x"}
AmountTexts == {Absent, "20", "x"}

ItemEntries ==
    {NoItem} \cup [title : {"T"}, price : PriceTexts, quantity : QuantityTexts]

Payloads == [item : [1..MaxItems -> ItemEntries], amount : AmountTexts]

\* float(text) and int(text): the number, or ValueError.
Numerals == [t \in {"2", "10", "20"} |->
                IF t = "2" THEN 2 ELSE IF t = "10" THEN 10 ELSE 20]

IsNumber(text) == text \in DOMAIN Numerals

\* form_data.get(key, default) followed by float() or int().
NumberOr(text, default) == IF text = Absent THEN default ELSE Numerals[text]

ParsesOr(text) == text = Absent \/ IsNumber(text)

\* A payload is received: the extraction starts at index 0 with items = [].
InitExtract ==
    /\ users = {}
    /\ orders = {}
    /\ order_seq = 0
    /\ sess = [r \in Reqs |-> {}]
    /\ req = [r \in Reqs |-> IdleReq]
    /\ tasks = {}
    /\ notified = {}
    /\ chat = [c \in Chats |-> IdleChat]
    /\ clock = 1
    /\ claim = [k \in Claimers |-> IdleClaim]
    /\ call = NoCall
    /\ attempt = [a \in Attempters |-> IdleAttempt]
    /\ start = [c \in Chats |-> IdleStart]
    /\ contact = NoContact
    /\ messages = {}
    /\ fetched = NoFetch
    /\ \E payload \in Payloads :
         extract = [pc |-> "items", payload |-> payload, i |-> 0,
                    items |-> << >>, skipped |-> {}, keys |-> {},
                    val |-> [street |-> << >>, home |-> << >>,
                             apartment |-> << >>],
                    address |-> << >>, base_amount |-> 0,
                    result |-> "none"]
    /\ InitBot

\* The loop leaving at the first item that fails to parse.
ExtractItemsStopOnError ==
    /\ extract.pc = "items"
    /\ LET i == extract.i
           present == i < MaxItems /\ extract.payload.item[i + 1] # NoItem
       IN  IF ~present
           THEN extract' = [extract EXCEPT !.pc = "address"]
           ELSE LET e == extract.payload.item[i + 1]
                IN  IF ParsesOr(e.price) /\ ParsesOr(e.quantity)
                    THEN extract' = [extract EXCEPT
                            !.i = i + 1,
                            !.items = Append(@,
                               [index |-> i, title |-> e.title,
                                price |-> NumberOr(e.price, 0),
                                quantity |-> NumberOr(e.quantity, 1)])]
                    ELSE extract' = [extract EXCEPT
                            !.pc = "address",
                            !.skipped = @ \cup {i}]
    /\ UNCHANGED <<webhookVars, chat, opVars, messages, fetched, botVars>>

\* tilda.py 201-215: one turn of `while f"payment[{i}][title]" in form_data`.
\* The item is appended when float(price or 0) and int(quantity or 1) both
\* succeed; ValueError is logged and the item left out; i += 1 either way.
\* The loop ends at the first index without a title key.
ExtractItems ==
    /\ extract.pc = "items"
    /\ LET i == extract.i
           present == i < MaxItems /\ extract.payload.item[i + 1] # NoItem
       IN  IF ~present
           THEN extract' = [extract EXCEPT !.pc = "address"]
           ELSE LET e == extract.payload.item[i + 1]
                IN  IF ParsesOr(e.price) /\ ParsesOr(e.quantity)
                    THEN extract' = [extract EXCEPT
                            !.i = i + 1,
                            !.items = Append(@,
                               [index |-> i, title |-> e.title,
                                price |-> NumberOr(e.price, 0),
                                quantity |-> NumberOr(e.quantity, 1)])]
                    ELSE extract' = [extract EXCEPT
                            !.i = i + 1,
                            !.skipped = @ \cup {i}]
    /\ UNCHANGED <<webhookVars, chat, opVars, messages, fetched, botVars>>

\* A text is the sequence of its pieces; "" is the empty sequence.
AddressTexts(v) == {<< >>, <<v>>}

\* filter(None, parts)
RECURSIVE FilterNone(_)
FilterNone(parts) ==
    IF parts = << >> THEN << >>
    ELSE IF Head(parts) = << >> THEN FilterNone(Tail(parts))
         ELSE <<Head(parts)>> \o FilterNone(Tail(parts))

\* ", ".join(parts)
RECURSIVE Join(_)
Join(parts) ==
    IF parts = << >> THEN << >>
    ELSE IF Len(parts) = 1 THEN Head(parts)
         ELSE Head(parts) \o <<", ">> \o Join(Tail(parts))

\* tilda.py 224-232: keys is the set of address keys the form carries, val
\* their texts.  street defaults to "", home is formatted into "d. {home}"
\* with default "", and "kv. {apartment}" is appended when apartment is a
\* non-empty text.
AddressParts(keys, val) ==
    LET street == IF "street" \in keys THEN val.street ELSE << >>
        home == IF "home" \in keys THEN val.home ELSE << >>
        apartment == IF "apartment" \in keys THEN val.apartment ELSE << >>
    IN  <<street, <<"d. ">> \o home>>
        \o (IF apartment # << >> THEN << <<"kv. ">> \o apartment >>
            ELSE << >>)

FullAddressOf(keys, val) == Join(FilterNone(AddressParts(keys, val)))

\* The address keys of the form are read and the address is assembled.
BuildAddress ==
    /\ extract.pc = "address"
    /\ \E keys \in SUBSET {"street", "home", "apartment"} :
         \E val \in [street : AddressTexts("S"), home : AddressTexts("H"),
                     apartment : AddressTexts("A")] :
            /\ \A k \in {"street", "home", "apartment"} \ keys :
                  val[k] = << >>
            /\ extract' = [extract EXCEPT
                   !.pc = "create",
                   !.keys = keys, !.val = val,
                   !.address = FullAddressOf(keys, val)]
    /\ UNCHANGED <<webhookVars, chat, opVars, messages, fetched, botVars>>

\* tilda.py 238-257: base_amount=float(form_data.get("amount", 0)) is
\* evaluated inside the try around create_from_webhook; its ValueError ends
\* the request with 500 "Failed to create order".  Otherwise the Order is
\* stored with the items, the address and that amount.
CreateFromPayload ==
    /\ extract.pc = "create"
    /\ LET amount == extract.payload.amount
       IN  IF ParsesOr(amount)
           THEN extract' = [extract EXCEPT
                   !.pc = "done", !.result = "created",
                   !.base_amount = NumberOr(amount, 0)]
           ELSE extract' = [extract EXCEPT
                   !.pc = "done", !.result = "ValueError"]
    /\ UNCHANGED <<webhookVars, chat, opVars, messages, fetched, botVars>>

NextExtract ==
    \/ ExtractItems
    \/ BuildAddress
    \/ CreateFromPayload

SpecExtract == InitExtract /\ [][NextExtract]_vars

\* A text of fewer than ten digits.
ShortPhone == "12345"

\* receive_phone_confirmation with an order_repo.update that exists and does
\* what the call asks: UPDATE orders SET tilda_phone = :phone.
ReceivePhoneConfirmationUpdates ==
    /\ \E uid \in ChatIds, order_id \in 1..NumOrders,
          phone \in Phones \cup {ShortPhone} :
         IF phone = ShortPhone
         THEN /\ orders' = orders
              /\ call' = [op |-> "receive_phone_confirmation",
                          order_id |-> order_id, result |-> "too_short"]
         ELSE LET Set == [tilda_phone |-> phone]
              IN  /\ orders' = UpdateWhereId(order_id, Set)
                  /\ call' = [op |-> "receive_phone_confirmation",
                              order_id |-> order_id, result |-> "returned"]
    /\ UNCHANGED <<otherVars, users, order_seq, sess, req, tasks, notified, chat,
                   clock, claim, attempt, start, contact>>

\* phone_clean = ''.join(c for c in phone if c.isdigit()); len(phone_clean)
DigitCount(phone) == IF phone = ShortPhone THEN 5 ELSE 11

\* receive_phone_confirmation clearing the FSM state on every path.
ReceivePhoneConfirmationClears(uid) ==
    /\ \E order_id \in 1..NumOrders, phone \in Phones \cup {ShortPhone} :
         call' = [op |-> "receive_phone_confirmation", order_id |-> order_id,
                  result |-> IF DigitCount(phone) < 10 THEN "too_short"
                             ELSE "AttributeError"]
    /\ fsm' = [fsm EXCEPT ![uid] = "none"]
    /\ UNCHANGED <<messages, fetched, extract, routeVars, throttleVars,
                   users, orders, order_seq, sess, req, tasks, notified, chat,
                   clock, claim, attempt, start, contact>>

\* client.py 286-348: receive_phone_confirmation, entered with the order id
\* in the FSM data.  A phone of fewer than ten digits is answered "too
\* short" and the handler returns, the FSM state as it was.  Otherwise the
\* handler reads the sender's row and, when there is one, calls
\* user_repo.update; else it reads the order and, when there is one, calls
\* order_repo.update(tilda_phone=phone); else it shows the order None.
\* UserRepository and OrderRepository have no method update, and
\* show_order_to_client reads order.status: each path raises AttributeError,
\* which the handler's except answers with an error message before
\* state.clear().
ReceivePhoneConfirmationFor(uid) ==
    /\ \E order_id \in 1..NumOrders, phone \in Phones \cup {ShortPhone} :
         IF DigitCount(phone) < 10
         THEN /\ call' = [op |-> "receive_phone_confirmation",
                          order_id |-> order_id, result |-> "too_short"]
              /\ fsm' = fsm
         ELSE /\ call' = [op |-> "receive_phone_confirmation",
                          order_id |-> order_id, result |-> "AttributeError"]
              /\ fsm' = [fsm EXCEPT ![uid] = "none"]
    /\ UNCHANGED <<messages, fetched, extract, routeVars, throttleVars,
                   users, orders, order_seq, sess, req, tasks, notified, chat,
                   clock, claim, attempt, start, contact>>

ReceivePhoneConfirmation == \E uid \in ChatIds : ReceivePhoneConfirmationFor(uid)

\* @router.message(ClientStates.waiting_phone_confirmation): the handler
\* runs for a message of a chat user whose FSM state is that one.
PhoneConfirmationMessage ==
    \E uid \in ChatIds :
        /\ fsm[uid] = WaitingPhone
        /\ ReceivePhoneConfirmationFor(uid)

\* Order lifecycle: the store holds orders as the webhook created them, their
\* customer, a chat client and the operators; the status-writing methods and
\* the claims then run in any order.
OrderExt(i) == IF i = 1 THEN "E1" ELSE "E2"

InitOrder ==
    /\ users = {UserRow(TempIdLo, Null, "Ann", "P1", "")}
                 \cup {UserRow(501, "ann", "Ann", Null, Null)}
                 \cup {UserRow(id, Null, "Op", Null, Null) : id \in OperatorIds}
    /\ orders = {NewOrder(i, OrderExt(i), "Ann", "P1") : i \in 1..NumOrders}
    /\ order_seq = NumOrders
    /\ sess = [r \in Reqs |-> {}]
    /\ req = [r \in Reqs |-> IdleReq]
    /\ tasks = {}
    /\ notified = {}
    /\ chat = [c \in Chats |-> IdleChat]
    /\ clock = 1
    /\ claim = [k \in Claimers |-> IdleClaim]
    /\ call = NoCall
    /\ attempt = [a \in Attempters |-> IdleAttempt]
    /\ start = [c \in Chats |-> IdleStart]
    /\ contact = NoContact
    /\ messages = {}
    /\ fetched = NoFetch
    /\ extract = NoExtract
    /\ InitBot

NextOrder ==
    \/ LinkUser
    \/ UpdateStatus
    \/ SetPaymentLink
    \/ SetTrackingLink
    \/ SvcUpdateOrderStatus
    \/ SvcSetPaymentLink
    \/ SvcConfirmOrder
    \/ SvcCancelOrder
    \/ SvcMarkAsDelivered
    \/ Tick
    \/ \E k \in Claimers : AssignUpdate(k)
    \/ \E k \in Claimers : AssignRefetch(k)

SpecOrder == InitOrder /\ [][NextOrder]_vars

\* Every operation on an Order after its creation.
NextSnapshot ==
    \/ LinkUser
    \/ UpdateStatus
    \/ SetPaymentLink
    \/ SetTrackingLink
    \/ SvcUpdateOrderStatus
    \/ SvcSetPaymentLink
    \/ SvcConfirmOrder
    \/ SvcCancelOrder
    \/ SvcMarkAsDelivered
    \/ Tick
    \/ \E k \in Claimers : AssignUpdate(k)
    \/ \E k \in Claimers : AssignRefetch(k)
    \/ ReceivePhoneConfirmation

SpecSnapshot == InitOrder /\ [][NextSnapshot]_vars

\* The middleware in front of the handlers: events of the chat users arrive
\* while time passes.
\* Chat user 501 has sent BurstLen events in the second that has just begun,
\* and each was handed on.
InitThrottle ==
    /\ users = {}
    /\ orders = {}
    /\ order_seq = 0
    /\ sess = [r \in Reqs |-> {}]
    /\ req = [r \in Reqs |-> IdleReq]
    /\ tasks = {}
    /\ notified = {}
    /\ chat = [c \in Chats |-> IdleChat]
    /\ clock = 1
    /\ claim = [k \in Claimers |-> IdleClaim]
    /\ call = NoCall
    /\ attempt = [a \in Attempters |-> IdleAttempt]
    /\ start = [c \in Chats |-> IdleStart]
    /\ contact = NoContact
    /\ messages = {}
    /\ fetched = NoFetch
    /\ extract = NoExtract
    /\ fsm = [c \in ChatIds |-> "none"]
    /\ config = [operator_telegram_id |-> 601]
    /\ routed = NoEvent
    /\ now = 0
    /\ user_requests = [u \in ChatIds |->
                           IF u = 501 THEN [i \in 1..BurstLen |-> 0]
                           ELSE << >>]
    /\ passed = [u \in ChatIds |->
                    IF u = 501 THEN [i \in 1..BurstLen |-> 0] ELSE << >>]
    /\ verdict = [user_id |-> 501, outcome |-> "handled", seen |-> 0]

SpecThrottle == InitThrottle /\ [][NextThrottle]_vars

\* The operator router: events of any sender arrive at the handlers with
\* the operator id configured or unset; the calls the handlers make run on.
InitOperator ==
    /\ users = {UserRow(TempIdLo, Null, "Ann", "P1", "")}
                 \cup {UserRow(501, "ann", "Ann", Null, Null)}
                 \cup {UserRow(id, Null, "Op", Null, Null) : id \in OperatorIds}
    /\ orders = {NewOrder(i, OrderExt(i), "Ann", "P1") : i \in 1..NumOrders}
    /\ order_seq = NumOrders
    /\ sess = [r \in Reqs |-> {}]
    /\ req = [r \in Reqs |-> IdleReq]
    /\ tasks = {}
    /\ notified = {}
    /\ chat = [c \in Chats |-> IdleChat]
    /\ clock = 1
    /\ claim = [k \in Claimers |-> IdleClaim]
    /\ call = NoCall
    /\ attempt = [a \in Attempters |-> IdleAttempt]
    /\ start = [c \in Chats |-> IdleStart]
    /\ contact = NoContact
    /\ messages = {}
    /\ fetched = NoFetch
    /\ extract = NoExtract
    /\ fsm = [c \in ChatIds |-> "none"]
    /\ \E id \in OperatorSettings : config = [operator_telegram_id |-> id]
    /\ routed = NoEvent
    /\ user_requests = [u \in ChatIds |-> << >>]
    /\ now = 0
    /\ passed = [u \in ChatIds |-> << >>]
    /\ verdict = NoVerdict

NextOperator ==
    \/ TakeOrderEvent
    \/ \E a \in Attempters : ReceivePaymentLinkEvent(a)
    \/ ViewEvent
    \/ \E a \in Attempters : AttemptWrite(a)
    \/ \E a \in Attempters : AttemptRefetch(a)
    \/ \E a \in Attempters : AttemptNotify(a)

SpecOperator == InitOperator /\ [][NextOperator]_vars

\* The webhook has created order E1 and answered with its deep link; the
\* customer's row holds the temporary id, and two chat users have a row.
DeliveredReq ==
    Finish([IdleReq EXCEPT !.auth = "match", !.parsed = TRUE,
                           !.order_id = OrderExt(1), !.resolved = TempIdLo],
           "", Response(200, "", OrderExt(1), DeepLink(OrderExt(1))))

InitLink ==
    /\ users = {UserRow(TempIdLo, Null, "Ann", "P1", ""),
                UserRow(501, "ann", "Ann", Null, Null),
                UserRow(502, "unknown", "", Null, Null)}
    /\ orders = {NewOrder(i, OrderExt(i), "Ann", "P1") : i \in 1..NumOrders}
    /\ order_seq = NumOrders
    /\ sess = [r \in Reqs |-> {}]
    /\ req = [r \in Reqs |-> IF r = 1 THEN DeliveredReq ELSE IdleReq]
    /\ tasks = {}
    /\ notified = {}
    /\ chat = [c \in Chats |-> IdleChat]
    /\ clock = 1
    /\ claim = [k \in Claimers |-> IdleClaim]
    /\ call = NoCall
    /\ attempt = [a \in Attempters |-> IdleAttempt]
    /\ start = [c \in Chats |-> IdleStart]
    /\ contact = NoContact
    /\ messages = {}
    /\ fetched = NoFetch
    /\ extract = NoExtract
    /\ InitBot

\* The chat users open the deep link, link_user is called, the order moves
\* on.
NextLink ==
    \/ \E c \in Chats : CmdStart(c)
    \/ LinkUser
    \/ UpdateStatus
    \/ SvcCancelOrder

SpecLink == InitLink /\ [][NextLink]_vars

\* get_or_create on rows that exist: chat user 501 has no username and no
\* first name yet and carries a phone and an email, chat user 502 has both
\* names.
InitProfile ==
    /\ users = {UserRow(501, Null, "", "P1", "ann@x"),
                UserRow(502, "ann", "Ann", Null, Null)}
    /\ orders = {}
    /\ order_seq = 0
    /\ sess = [r \in Reqs |-> {}]
    /\ req = [r \in Reqs |-> IdleReq]
    /\ tasks = {}
    /\ notified = {}
    /\ chat = [c \in Chats |-> IdleChat]
    /\ clock = 1
    /\ claim = [k \in Claimers |-> IdleClaim]
    /\ call = NoCall
    /\ attempt = [a \in Attempters |-> IdleAttempt]
    /\ start = [c \in Chats |-> IdleStart]
    /\ contact = NoContact
    /\ messages = {}
    /\ fetched = NoFetch
    /\ extract = NoExtract
    /\ InitBot

\* Telegram usernames and first names of the senders.
ProfileUsernames == {Null, "ann", "bob"}
ProfileFirstNames == {"", "Ann", "Bob"}

GetOrCreateProfile(c) ==
    GetOrCreateSelectFrom(c, ProfileUsernames, ProfileFirstNames)

NextProfile ==
    \/ \E c \in Chats : GetOrCreateProfile(c)
    \/ \E c \in Chats : GetOrCreateCommit(c)

SpecProfile == InitProfile /\ [][NextProfile]_vars

\* The chat users have been asked for their phone: each session is in
\* waiting_phone_confirmation with the order id in its data.
InitConfirm ==
    /\ users = {UserRow(TempIdLo, Null, "Ann", "P1", "")}
                 \cup {UserRow(501, "ann", "Ann", Null, Null)}
                 \cup {UserRow(id, Null, "Op", Null, Null) : id \in OperatorIds}
    /\ orders = {NewOrder(i, OrderExt(i), "Ann", "P1") : i \in 1..NumOrders}
    /\ order_seq = NumOrders
    /\ sess = [r \in Reqs |-> {}]
    /\ req = [r \in Reqs |-> IdleReq]
    /\ tasks = {}
    /\ notified = {}
    /\ chat = [c \in Chats |-> IdleChat]
    /\ clock = 1
    /\ claim = [k \in Claimers |-> IdleClaim]
    /\ call = NoCall
    /\ attempt = [a \in Attempters |-> IdleAttempt]
    /\ start = [c \in Chats |-> IdleStart]
    /\ contact = NoContact
    /\ messages = {}
    /\ fetched = NoFetch
    /\ extract = NoExtract
    /\ fsm = [c \in ChatIds |-> WaitingPhone]
    /\ config = [operator_telegram_id |-> 601]
    /\ routed = NoEvent
    /\ user_requests = [u \in ChatIds |-> << >>]
    /\ now = 0
    /\ passed = [u \in ChatIds |-> << >>]
    /\ verdict = NoVerdict

NextConfirm ==
    \/ PhoneConfirmationMessage
    \/ LinkUser
    \/ UpdateStatus
    \/ SvcConfirmOrder
    \/ SvcCancelOrder

SpecConfirm == InitConfirm /\ [][NextConfirm]_vars

\* The conversation of an order: messages are saved and read back while
\* time passes and the order is cancelled.
NextMessages ==
    \/ Save
    \/ GetOrderMessages
    \/ ReceiveMessageForOperator
    \/ Tick
    \/ SvcCancelOrder

SpecMessages == InitOrder /\ [][NextMessages]_vars

\* Calls on one Order that overlap: each is made, writes, and reads back.
NextRace ==
    \/ \E a \in Attempters : AttemptBegin(a)
    \/ \E a \in Attempters : AttemptWrite(a)
    \/ \E a \in Attempters : AttemptRefetch(a)
    \/ \E a \in Attempters : AttemptNotify(a)
    \/ LinkUser

SpecRace == InitOrder /\ [][NextRace]_vars

\* The payment-link flow: the orders are claimed and wait for the operator;
\* the operator presses "send payment link" for an order that is waiting,
\* which stores its id in the FSM data, and sends the link later, while
\* cancellations of the same orders are in flight.
WaitingOrder(i) ==
    [NewOrder(i, OrderExt(i), "Ann", "P1") EXCEPT
        !.status = "waiting_operator", !.assigned_to = 601,
        !.assigned_at = 1]

InitWaiting ==
    /\ users = {UserRow(TempIdLo, Null, "Ann", "P1", "")}
                 \cup {UserRow(501, "ann", "Ann", Null, Null)}
                 \cup {UserRow(id, Null, "Op", Null, Null) : id \in OperatorIds}
    /\ orders = {WaitingOrder(i) : i \in 1..NumOrders}
    /\ order_seq = NumOrders
    /\ sess = [r \in Reqs |-> {}]
    /\ req = [r \in Reqs |-> IdleReq]
    /\ tasks = {}
    /\ notified = {}
    /\ chat = [c \in Chats |-> IdleChat]
    /\ clock = 1
    /\ claim = [k \in Claimers |-> IdleClaim]
    /\ call = NoCall
    /\ attempt = [a \in Attempters |-> IdleAttempt]
    /\ start = [c \in Chats |-> IdleStart]
    /\ contact = NoContact
    /\ messages = {}
    /\ fetched = NoFetch
    /\ extract = NoExtract
    /\ InitBot

SendPaymentLinkPressed(a) ==
    /\ \E o \in orders : o.status = "waiting_operator"
    /\ AttemptBeginFrom(a, {"receive_payment_link"})
    /\ \E o \in orders :
         o.id = attempt'[a].order_id /\ o.status = "waiting_operator"

CancelOrderBegin(a) == AttemptBeginFrom(a, {"cancel_order"})

NextPayment ==
    \/ \E a \in Attempters : SendPaymentLinkPressed(a)
    \/ \E a \in Attempters : CancelOrderBegin(a)
    \/ \E a \in Attempters : AttemptWrite(a)
    \/ \E a \in Attempters : AttemptRefetch(a)
    \/ \E a \in Attempters : AttemptNotify(a)
    \/ LinkUser

SpecPayment == InitWaiting /\ [][NextPayment]_vars

\* Deliveries that create orders, and clients who tap the deep link they
\* were answered with.
StartBodies ==
    {b \in FormBodies : /\ b.formid \in ExtIds /\ b.phone = "P1"
                        /\ b.name = "Ann" /\ b.email = Absent}

VerifyStart(r) == VerifyFrom(r, StartBodies)

NextStart ==
    \/ \E r \in Reqs : VerifyStart(r)
    \/ \E r \in Reqs : Parse(r)
    \/ \E r \in Reqs : Dedup(r)
    \/ \E r \in Reqs : UserSelect(r)
    \/ \E r \in Reqs : UserFlush(r)
    \/ \E r \in Reqs : UserReselect(r)
    \/ \E r \in Reqs : CreateOrder(r)
    \/ \E c \in Chats : CmdStart(c)

SpecStart == Init /\ [][NextStart]_vars

\* Every writer of table users: webhook deliveries, first chat contacts, and
\* phone updates by chat users.
GetOrCreateNamed(c) == GetOrCreateSelectFrom(c, {"ann"}, {"Ann"})

UsersBodies ==
    {b \in FormBodies : /\ b.formid \in ExtIds /\ b.phone \in Phones
                        /\ (b.formid = "E1" => b.phone = "P1")
                        /\ b.name = "Ann" /\ b.email = Absent}

VerifyUsers(r) == VerifyFrom(r, UsersBodies)

NextUsers ==
    \/ \E r \in Reqs : VerifyUsers(r)
    \/ \E r \in Reqs : Parse(r)
    \/ \E r \in Reqs : Dedup(r)
    \/ \E r \in Reqs : UserSelect(r)
    \/ \E r \in Reqs : UserFlush(r)
    \/ \E r \in Reqs : UserReselect(r)
    \/ \E r \in Reqs : CreateOrder(r)
    \/ \E c \in Chats : GetOrCreateNamed(c)
    \/ \E c \in Chats : GetOrCreateCommit(c)
    \/ UpdatePhone
    \/ HandleContact

SpecUsers == Init /\ [][NextUsers]_vars

\* Orders from the webhook to the payment link, with every notification that
\* is sent on the way: deliveries of one order, the chat client who is linked
\* to the Order, and the operator's handlers.
NotifyBodies ==
    {b \in FormBodies : /\ b.formid = "E1" /\ b.phone = "P1"
                        /\ b.name = "Ann" /\ b.email = Absent}

VerifyNotify(r) == VerifyFrom(r, NotifyBodies)

InitNotify ==
    /\ users = {UserRow(501, "ann", "Ann", Null, Null)}
    /\ orders = {}
    /\ order_seq = 0
    /\ sess = [r \in Reqs |-> {}]
    /\ req = [r \in Reqs |-> IdleReq]
    /\ tasks = {}
    /\ notified = {}
    /\ chat = [c \in Chats |-> IdleChat]
    /\ clock = 1
    /\ claim = [k \in Claimers |-> IdleClaim]
    /\ call = NoCall
    /\ attempt = [a \in Attempters |-> IdleAttempt]
    /\ start = [c \in Chats |-> IdleStart]
    /\ contact = NoContact
    /\ messages = {}
    /\ fetched = NoFetch
    /\ extract = NoExtract
    /\ InitBot

NextNotify ==
    \/ \E r \in Reqs : VerifyNotify(r)
    \/ \E r \in Reqs : Parse(r)
    \/ \E r \in Reqs : Dedup(r)
    \/ \E r \in Reqs : UserSelect(r)
    \/ \E r \in Reqs : UserFlush(r)
    \/ \E r \in Reqs : UserReselect(r)
    \/ \E r \in Reqs : CreateOrder(r)
    \/ NotifyOperator
    \/ LinkUser
    \/ TakeOrder
    \/ \E a \in Attempters : ReceivePaymentLinkBegin(a)
    \/ \E a \in Attempters : AttemptWrite(a)
    \/ \E a \in Attempters : AttemptRefetch(a)
    \/ \E a \in Attempters : AttemptNotify(a)

SpecNotify == InitNotify /\ [][NextNotify]_vars

\* ------------------------------------------------------------ properties
Done(r) == req[r].pc = "done"

\* C1: in every reachable state at most one Order row exists per external
\* order id, whatever the interleaving of the deliveries.
C1_OneOrderPerExternalId ==
    \A o1, o2 \in orders :
        o1.external_order_id = o2.external_order_id => o1 = o2

\* A delivery passed the deduplication read, lost the race and was stopped by
\* the constraint.
C1_RaceStoppedByConstraint ==
    \E r \in Reqs :
        /\ req[r].raised = "IntegrityError:order"
        /\ Cardinality(GetByExternalId(req[r].order_id)) = 1

\* C2: two correctly signed deliveries of one external order id that both get
\* as far as order creation both answer 2xx, with one Order row for the id.
C2_BothDeliveriesSucceed ==
    \A r1, r2 \in Reqs :
        (/\ r1 # r2 /\ Done(r1) /\ Done(r2)
         /\ req[r1].order_id # Absent
         /\ req[r1].order_id = req[r2].order_id
         /\ req[r1].raised # "IntegrityError:user"
         /\ req[r2].raised # "IntegrityError:user")
        => /\ req[r1].resp.code = 200 /\ req[r2].resp.code = 200
           /\ Cardinality(GetByExternalId(req[r1].order_id)) = 1

\* C3: a delivery whose external order id has a committed Order when the
\* deduplication lookup runs answers ok for that id and changes nothing: no
\* Order, no User, no task, no notification.
C3_DuplicateIsNoOp ==
    [][\A r \in Reqs :
         (/\ req[r].pc = "dedup"
          /\ req'[r] # req[r]
          /\ \E o \in orders : o.external_order_id = req[r].order_id)
         => /\ req'[r].pc = "done"
            /\ req'[r].resp.code = 200
            /\ req'[r].resp.order_id = req[r].order_id
            /\ UNCHANGED <<users, orders, order_seq, sess, tasks, notified>>
      ]_vars

C3_DuplicateAcknowledged ==
    \E r \in Reqs : Done(r) /\ req[r].resp.detail = "Already processed"

\* C4: a request whose signature header differs from the HMAC of its body is
\* answered 403 before the body is parsed and changes nothing in the store.
C4_BadSignatureIs403 ==
    [][\A r \in Reqs :
         (req[r].pc = "idle" /\ req'[r].auth = "mismatch")
         => /\ req'[r].pc = "done"
            /\ req'[r].resp.code = 403
            /\ ~req'[r].parsed
            /\ UNCHANGED <<users, orders, order_seq, sess, tasks, notified>>
      ]_vars

\* C5: concurrent get_or_create_by_phone calls for one phone that no user has
\* yet: never two rows with the phone, no call ends in the IntegrityError,
\* every call returns the row with the phone, and once all deliveries are over
\* that row is the one every call returned.
SamePhoneRows == {u \in users : u.phone = "P1"}

C5_SamePhoneOneUser ==
    /\ Cardinality(SamePhoneRows) <= 1
    /\ \A r \in Reqs : req[r].raised # "IntegrityError:user"
    /\ \A r \in Reqs :
         req[r].pc = "create" =>
             \E u \in users \cup sess[r] :
                 u.user_id = req[r].user /\ u.phone = "P1"
    /\ (\A r \in Reqs : Done(r)) =>
         \A r \in Reqs :
             req[r].resolved # NullId =>
                 /\ Cardinality(SamePhoneRows) = 1
                 /\ \A u \in SamePhoneRows : u.user_id = req[r].resolved

\* Every delivery is over and one of them got the existing row after losing
\* the insert race (its own temp_id differs from the row it was given).
C5_LoserGotWinnersRow ==
    /\ \A r \in Reqs : Done(r) /\ req[r].resolved # NullId
    /\ \E r1, r2 \in Reqs : r1 # r2 /\ req[r1].order_id # req[r2].order_id
    /\ Cardinality(orders) = NumReqs
    /\ Cardinality(users) = 1

\* C6: two get_or_create calls for one user_id that both found no row both
\* return, and one row carries the user_id.
C6_BothFirstContactsReturn ==
    \A c1, c2 \in Chats :
        (/\ c1 # c2
         /\ chat[c1].pc = "done" /\ chat[c2].pc = "done"
         /\ chat[c1].user_id = chat[c2].user_id
         /\ ~chat[c1].found /\ ~chat[c2].found)
        => /\ chat[c1].result = "returned"
           /\ chat[c2].result = "returned"
           /\ Cardinality({u \in users : u.user_id = chat[c1].user_id}) = 1

\* The transition graph: NEW -> AWAITING_CONFIRMATION | WAITING_OPERATOR ->
\* AWAITING_PAYMENT -> PAID -> IN_DELIVERY -> COMPLETED, and any non-terminal
\* status -> CANCELLED.
Terminal == {"completed", "cancelled"}

Adjacent ==
    {<<"new", "awaiting_confirmation">>, <<"new", "waiting_operator">>,
     <<"awaiting_confirmation", "waiting_operator">>,
     <<"waiting_operator", "awaiting_payment">>,
     <<"awaiting_payment", "paid">>, <<"paid", "in_delivery">>,
     <<"in_delivery", "completed">>}
        \cup {<<s, "cancelled">> : s \in OrderStatus \ Terminal}

\* C7: every change of an Order's status made by a status-writing operation
\* goes to a status adjacent to the current one in the transition graph.
C7_StatusFollowsGraph ==
    [][\A o \in orders : \A n \in orders' :
         (o.id = n.id /\ o.status # n.status)
         => <<o.status, n.status>> \in Adjacent
      ]_vars

\* C8: a status-writing call on an Order that is COMPLETED or CANCELLED (one
\* the store did not already refuse for a missing user) ends in an
\* invalid-transition error and leaves the Order as it was.
C8_TerminalRejects ==
    [][\A o \in orders :
         (/\ o.status \in Terminal
          /\ claim' = claim
          /\ call'.op # "none"
          /\ call'.result # "IntegrityError"
          /\ call'.order_id = o.id
          /\ (call' # call \/ orders' # orders))
         => /\ call'.result = "invalid_transition"
            /\ o \in orders'
      ]_vars

\* C9: of two finished assign_to_operator calls by different operators on
\* one Order that was unassigned, the first is the only one that took effect:
\* the Order is assigned to it and the other call was returned that assignee.
C9_OneClaimWins ==
    \A k1, k2 \in Claimers :
        (/\ claim[k1].pc = "done" /\ claim[k2].pc = "done"
         /\ claim[k1].order_id = claim[k2].order_id
         /\ claim[k1].operator_id # claim[k2].operator_id
         /\ claim[k1].prev_to = NullId
         /\ claim[k2].prev_to = claim[k1].operator_id)
        => /\ claim[k2].ret_to = claim[k1].operator_id
           /\ \A o \in orders :
                o.id = claim[k1].order_id =>
                    o.assigned_to = claim[k1].operator_id

\* C10: assign_to_operator on an Order that has an assignee leaves
\* assigned_to and assigned_at as they are and returns the Order with that
\* assignee.
C10_ClaimedStaysClaimed ==
    [][\A k \in Claimers :
         /\ (claim[k].pc = "idle" /\ claim'[k].pc = "refetch"
             /\ claim'[k].prev_to # NullId)
            => \A n \in orders' :
                  n.id = claim'[k].order_id =>
                      /\ n.assigned_to = claim'[k].prev_to
                      /\ n.assigned_at = claim'[k].prev_at
         /\ (claim[k].pc = "refetch" /\ claim'[k].pc = "done"
             /\ claim[k].prev_to # NullId)
            => claim'[k].ret_to = claim[k].prev_to
      ]_vars

\* C12: of two overlapping calls on one Order that exclude each other
\* (cancel_order and set_payment_link, set_tracking_link and cancel_order) at
\* most one takes effect: the one that writes second, and finds a status the
\* first one left from which its own transition is not in the graph, is
\* rejected.
Exclusive ==
    {{"cancel_order", "receive_payment_link"},
     {"cancel_order", "set_tracking_link"}}

C12_ExclusiveCallsOneWins ==
    \A a, b \in Attempters :
        (/\ b \in attempt[a].racing
         /\ attempt[b].pc \notin {"idle", "write"}
         /\ {attempt[a].op, attempt[b].op} \in Exclusive
         /\ <<attempt[b].found,
              AttemptValues(attempt[b].op, attempt[b].link).status>>
                \notin Adjacent)
        => ~(attempt[a].applied /\ attempt[b].applied)

\* C14: a notification that fails to send undoes nothing.  When the
\* background task of a webhook fails, the Order it is about is still in the
\* store and the delivery that created it has answered 200 for it; when the
\* message to the client after set_payment_link fails, the store is left as
\* the call wrote it.
C14_NotifyFailureKeepsOrder ==
    [][/\ \A t \in tasks :
            (/\ t \notin tasks'
             /\ [order_id |-> t.order_id, delivered |-> FALSE] \in notified')
            => /\ UNCHANGED <<users, orders, req>>
               /\ \E o \in orders' : o.external_order_id = t.order_id
               /\ req'[t.req].pc = "done"
               /\ req'[t.req].resp.code = 200
               /\ req'[t.req].resp.order_id = t.order_id
       /\ \A a \in Attempters :
            (attempt[a].pc = "notify" /\ attempt'[a].notify = "failed")
            => /\ UNCHANGED <<users, orders>>
               /\ attempt'[a].applied
      ]_vars

\* Both failures have happened: the operator was not reached for an Order
\* that is in the store, and the client was not reached for a payment link
\* the Order carries.
C14_BothSendsFailed ==
    /\ \E n \in notified :
         /\ ~n.delivered
         /\ \E o \in orders : o.external_order_id = n.order_id
    /\ \E a \in Attempters :
         /\ attempt[a].pc = "done" /\ attempt[a].notify = "failed"
         /\ \E o \in orders :
              /\ o.id = attempt[a].order_id
              /\ o.payment_link = attempt[a].link
              /\ o.status = "awaiting_payment"

\* C15: a correctly signed request whose form has no formid is answered 400
\* and changes nothing: no User, no Order, no task, no notification.
C15_MissingFormidIs400 ==
    [][\A r \in Reqs :
         (/\ req[r].pc = "parse"
          /\ req[r].auth = "match"
          /\ req[r].form.parse_ok
          /\ req[r].form.formid \in {Absent, ""}
          /\ req'[r] # req[r])
         => /\ req'[r].pc = "done"
            /\ req'[r].resp.code = 400
            /\ UNCHANGED <<users, orders, order_seq, sess, tasks, notified>>
      ]_vars

\* A signed delivery without formid was turned away, and it is not the only
\* thing that happened: another delivery has created its Order.
C15_FormidRejected ==
    /\ \E r \in Reqs : Done(r) /\ req[r].resp.detail = "Missing formid"
    /\ orders # {}

\* C16: a correctly signed delivery with an external order id that has no
\* Order yet, and without phone and/or name, ends with 200 and an Order in
\* status NEW for that id (whenever the random temp_id it drew was free).
C16_NoPhoneOrNameStillCreates ==
    [][\A r \in Reqs :
         (/\ req[r].pc \notin {"idle", "done"}
          /\ req'[r].pc = "done"
          /\ req[r].auth = "match"
          /\ req[r].form.parse_ok
          /\ req[r].form.formid \notin {Absent, ""}
          /\ (req[r].form.phone = Absent \/ req[r].form.name = Absent)
          /\ GetByExternalId(req[r].form.formid) = {}
          /\ \A u \in users : u.user_id # req[r].newuser.user_id)
         => /\ req'[r].resp.code = 200
            /\ \E o \in orders' :
                 /\ o.external_order_id = req[r].form.formid
                 /\ o.status = "new"
      ]_vars

\* C17: the deep link round-trips the external order id: /start with the
\* parameter the webhook emitted for E resolves to the Order whose
\* external_order_id is E.
C17_DeepLinkRoundTrip ==
    \A c \in Chats :
        (start[c].pc = "done" /\ start[c].ext # Null)
        => /\ start[c].resolved = start[c].ext
           /\ \E o \in orders : o.external_order_id = start[c].ext

\* C18: no two User rows share a non-null phone, none share a user_id, and
\* no two share a non-null email, whatever webhook resolutions, first chat
\* contacts and phone updates have run.
C18_UsersUnique ==
    \A u, v \in users :
        u # v => /\ u.user_id # v.user_id
                 /\ (u.phone # Null => u.phone # v.phone)
                 /\ (u.email # Null => u.email # v.email)

\* A webhook-created row and a chat row with a phone exist, and a phone
\* update has just been refused.
C18_UpdateRefused ==
    /\ \E u \in users : u.user_id \in TempIds /\ u.phone # Null
    /\ \E u \in users : u.user_id \in ChatIds /\ u.phone # Null
    /\ contact.result = "IntegrityError"

\* C19: merge-by-phone: a chat user attaching phone P (update_phone or
\* handle_contact) while a webhook-created row holds P succeeds, and then
\* exactly one row carries P and it has the chat user's user_id.
C19_MergeByPhone ==
    [][(/\ contact' # contact
        /\ \E u \in users : u.user_id = contact'.user_id
        /\ \E w \in users : w.user_id \in TempIds /\ w.phone = contact'.phone)
       => /\ contact'.result = "updated"
          /\ \A u \in users' :
               u.phone = contact'.phone => u.user_id = contact'.user_id
          /\ \E u \in users' : u.phone = contact'.phone
      ]_vars

\* C21: the Message sequence of an Order is append-only: every Message
\* saved earlier is still present with unchanged sender, text and direction
\* after any operation, and get_order_messages returns the Order's messages
\* in non-decreasing timestamp order.
C21_MessagesAppendOnly ==
    [][/\ \A m \in messages :
            \E n \in messages' :
               /\ n.id = m.id /\ n.order_id = m.order_id
               /\ n.sender_id = m.sender_id /\ n.text = m.text
               /\ n.direction = m.direction
       /\ fetched' # fetched =>
            /\ {fetched'.rows[i] : i \in 1..Len(fetched'.rows)}
                 = {m \in messages : m.order_id = fetched'.order_id}
            /\ \A i \in 1..(Len(fetched'.rows) - 1) :
                 fetched'.rows[i].timestamp <= fetched'.rows[i + 1].timestamp
      ]_vars

\* Three messages saved at two different times were read back after the
\* order was cancelled.
C21_ConversationReadBack ==
    /\ Len(fetched.rows) = MaxMessages
    /\ \E i, j \in 1..Len(fetched.rows) :
         fetched.rows[i].timestamp # fetched.rows[j].timestamp
    /\ \E o \in orders : o.id = fetched.order_id /\ o.status = "cancelled"

\* C22: the webhook acknowledgement has the same shape for a first
\* submission and for a duplicate: status ok, the external order id and the
\* deep-link token for that id.
C22_AckShape ==
    \A r \in Reqs :
        (Done(r) /\ req[r].resp.code = 200)
        => /\ req[r].resp.order_id = req[r].order_id
           /\ req[r].resp.deep_link = DeepLink(req[r].order_id)

\* C23: in get_or_create_by_phone a uniqueness violation is caught once and
\* followed by one lookup by phone; when that lookup finds no row the error
\* is surfaced, neither swallowed nor retried: the request ends there with
\* 500, and it creates no Order.
C23_SecondFailureSurfaces ==
    [][\A r \in Reqs :
         (/\ req[r].pc = "user_reselect"
          /\ req'[r] # req[r]
          /\ GetByPhone(PhoneOf(req[r].form)) = {})
         => /\ req'[r].pc = "done"
            /\ req'[r].raised = "IntegrityError:user"
            /\ req'[r].resp.code = 500
            /\ sess'[r] = {}
            /\ UNCHANGED <<users, orders, order_seq, tasks>>
      ]_vars

\* A delivery whose insert collided on something other than its phone ended
\* with 500; the store holds no user with its phone and no order from it.
C23_SurfacedAs500 ==
    \E r \in Reqs :
        /\ Done(r)
        /\ req[r].raised = "IntegrityError:user"
        /\ req[r].resp.code = 500
        /\ \A o \in orders : o.external_order_id # req[r].order_id

\* C24: user resolution and order creation of one webhook request commit or
\* roll back together: a User row created by a request becomes a committed
\* row only in the step that commits that request's Order, and a failed
\* order insert leaves no User row behind.
C24_UserAndOrderTogether ==
    [][/\ \A u \in users' \ users :
            \E o \in orders' \ orders :
               /\ o.tilda_phone = u.phone
               /\ o.tilda_name = u.first_name
       /\ \A r \in Reqs :
            (req[r].pc = "create" /\ req'[r].pc = "done"
             /\ req'[r].resp.code = 500)
            => users' = users /\ sess'[r] = {}
      ]_vars

\* A request flushed a new user and then failed to insert its order: the
\* user is neither committed nor pending.
C24_FailedInsertDroppedUser ==
    \E r \in Reqs :
        /\ Done(r)
        /\ req[r].raised = "IntegrityError:order"
        /\ req[r].resolved \in TempIds
        /\ \A u \in users : u.user_id # req[r].resolved
        /\ sess[r] = {}

\* C25: for each external order id at most one notify-operator task is ever
\* enqueued, and only once the Order row for that id is committed; a request
\* that ends in 400, 403 or 500 enqueues none.
C25_OneNotifyTaskPerOrder ==
    [][/\ \A t \in tasks' \ tasks :
            /\ \E o \in orders' : o.external_order_id = t.order_id
            /\ \A s \in tasks : s.order_id # t.order_id
            /\ \A n \in notified : n.order_id # t.order_id
            /\ \A s \in tasks' \ tasks : s = t
       /\ \A r \in Reqs :
            (req[r].pc # "done" /\ req'[r].pc = "done"
             /\ req'[r].resp.code \in {400, 403, 500})
            => tasks' \subseteq tasks
      ]_vars

\* The task of an order has run, a second delivery for the same id ended
\* with 500 or as a duplicate, and no task is waiting.
C25_SecondDeliveryNoTask ==
    /\ tasks = {}
    /\ \E n \in notified :
         \E r \in Reqs :
            /\ Done(r)
            /\ req[r].order_id = n.order_id
            /\ \/ req[r].resp.code = 500
               \/ req[r].resp.detail = "Already processed"

C27_AssigneeIffAssignedAt ==
    \A o \in orders : (o.assigned_to = NullId) <=> (o.assigned_at = NullId)

\* An order was claimed, claimed again at a later time, and written by the
\* status and link methods.
C27_ClaimedTwiceAndWritten ==
    \E o \in orders :
        /\ o.assigned_to # NullId
        /\ o.assigned_at = MaxClock
        /\ o.payment_link # Null
        /\ o.status = "cancelled"
        /\ \E k \in Claimers :
             /\ claim[k].pc = "done"
             /\ claim[k].order_id = o.id
             /\ claim[k].prev_to # NullId
             /\ claim[k].prev_at # NullId
             /\ claim[k].prev_at < o.assigned_at

RECURSIVE ItemSum(_)
ItemSum(items) ==
    IF items = << >> THEN 0
    ELSE Head(items).price * Head(items).quantity + ItemSum(Tail(items))

\* C28: the base_amount stored for an Order created by the webhook equals
\* the sum over its stored line items of price times quantity, for every
\* payload.
C28_BaseAmountIsItemSum ==
    (extract.pc = "done" /\ extract.result = "created")
    => extract.base_amount = ItemSum(extract.items)

\* The first index without a title key.
FirstGap(payload) ==
    CHOOSE g \in 0..MaxItems :
        /\ g = MaxItems \/ payload.item[g + 1] = NoItem
        /\ \A j \in 0..(g - 1) : payload.item[j + 1] # NoItem

ItemParses(e) == ParsesOr(e.price) /\ ParsesOr(e.quantity)

\* C29: line-item extraction reads indices 0, 1, 2, ... and stops at the
\* first index whose title key is absent, so items after a gap are never
\* included; an item whose price or quantity fails to parse is skipped while
\* extraction continues with the next index, and the Order is still created,
\* also when zero items were parsed.
C29_ExtractionStopsAtGapSkipsBad ==
    extract.pc \in {"address", "create", "done"}
    => LET payload == extract.payload
           gap == FirstGap(payload)
           items == extract.items
       IN  /\ {items[k].index : k \in 1..Len(items)}
                = {i \in 0..(gap - 1) : ItemParses(payload.item[i + 1])}
           /\ \A k \in 1..(Len(items) - 1) :
                items[k].index < items[k + 1].index
           /\ \A k \in 1..Len(items) :
                LET e == payload.item[items[k].index + 1]
                IN  /\ items[k].price = NumberOr(e.price, 0)
                    /\ items[k].quantity = NumberOr(e.quantity, 1)
           /\ extract.skipped
                = {i \in 0..(gap - 1) : ~ItemParses(payload.item[i + 1])}
           /\ (extract.pc = "done" /\ ParsesOr(payload.amount))
                => extract.result = "created"

\* An Order was created from a payload whose first item was skipped and
\* whose next item was stored.
C29_SkippedThenStored ==
    /\ extract.pc = "done"
    /\ extract.result = "created"
    /\ 0 \in extract.skipped
    /\ Len(extract.items) >= 1
    /\ extract.items[1].index = 1

\* text.split(", ")
RECURSIVE SplitOnComma(_, _)
SplitOnComma(text, part) ==
    IF text = << >> THEN <<part>>
    ELSE IF Head(text) = ", "
         THEN <<part>> \o SplitOnComma(Tail(text), << >>)
         ELSE SplitOnComma(Tail(text), Append(part, Head(text)))

AddressPieces(address) ==
    IF address = << >> THEN << >> ELSE SplitOnComma(address, << >>)

\* C30: the assembled delivery address contains exactly the non-empty
\* components among street, home and apartment, in that order, joined by
\* ', '; an empty or missing component contributes nothing.
C30_AddressOnlyNonEmptyParts ==
    extract.pc \in {"create", "done"}
    => LET given == FilterNone(<<extract.val.street, extract.val.home,
                                 extract.val.apartment>>)
           pieces == AddressPieces(extract.address)
       IN  /\ Len(pieces) = Len(given)
           /\ \A i \in 1..Len(given) :
                \E j \in 1..Len(pieces[i]) : pieces[i][j] = given[i][1]

\* C31: a phone of fewer than ten digits sent in waiting_phone_confirmation
\* writes no User and no Order, so it moves no Order to waiting_operator, and
\* leaves every chat session in the state it was in.
C31_ShortPhoneRejected ==
    [][(/\ call' # call
        /\ call'.op = "receive_phone_confirmation"
        /\ call'.result = "too_short")
       => /\ users' = users
          /\ orders' = orders
          /\ fsm' = fsm]_vars

\* A short phone was answered after another chat user's session had been
\* cleared by a long one: the sender's session is still waiting.
C31_ShortPhoneStillWaiting ==
    /\ call.op = "receive_phone_confirmation"
    /\ call.result = "too_short"
    /\ \E c \in ChatIds : fsm[c] = WaitingPhone
    /\ \E c \in ChatIds : fsm[c] = "none"

\* C32: no step replaces a stored username or first_name that is not empty,
\* and no step changes the phone, the email or the role of a stored user.
C32_FirstWriteWins ==
    [][\A u \in users : \A v \in users' :
          v.user_id = u.user_id
          => /\ ~Falsy(u.username) => v.username = u.username
             /\ ~Falsy(u.first_name) => v.first_name = u.first_name
             /\ v.phone = u.phone
             /\ v.email = u.email
             /\ v.role = u.role]_vars

C34_NoEmailStillCreates ==
    [][\A r \in Reqs :
         (/\ req[r].pc \notin {"idle", "done"}
          /\ req'[r].pc = "done"
          /\ req[r].auth = "match"
          /\ req[r].form.parse_ok
          /\ req[r].form.formid \notin {Absent, ""}
          /\ req[r].form.phone \in Phones
          /\ req[r].form.email = Absent
          /\ GetByExternalId(req[r].form.formid) = {}
          /\ GetByPhone(req[r].form.phone) = {}
          /\ \A u \in users : u.user_id # req[r].newuser.user_id)
         => /\ req'[r].resp.code = 200
            /\ \E u \in users' : u.phone = req[r].form.phone
            /\ \E o \in orders' : o.external_order_id = req[r].form.formid
      ]_vars

\* C35: no step changes the user_id of an Order that has one.
C35_UserIdNeverReassigned ==
    [][\A o \in orders : \A p \in orders' :
          (p.id = o.id /\ o.user_id # NullId) => p.user_id = o.user_id]_vars

\* C36: an event is handled by an operator handler only when its sender is
\* the configured operator, so never while the id is unset; an event of
\* another sender changes no Order and starts no call; a write to an Order
\* and the start of a payment-link call happen only behind a handled event.
C36_OperatorOnly ==
    [][/\ routed'.handled
          => /\ config.operator_telegram_id # NullId
             /\ routed'.sender = config.operator_telegram_id
       /\ (routed' # routed /\ ~routed'.handled)
          => UNCHANGED <<orders, attempt, claim, call>>
       /\ (\E a \in Attempters : attempt[a].pc = "idle"
                                 /\ attempt'[a].pc # "idle")
          => /\ routed'.handled
             /\ routed'.handler = "receive_payment_link"
       /\ orders' # orders
          => \E a \in Attempters : attempt[a].pc = "write"
       /\ (call' # call /\ call'.op = "take_order")
          => /\ routed'.handled
             /\ orders' = orders]_vars

\* The operator's payment link was written to an Order, and an event of
\* another sender was then turned away.
C36_StrangerTurnedAway ==
    /\ config.operator_telegram_id = 601
    /\ routed.sender = 602
    /\ ~routed.handled
    /\ \E o \in orders : o.payment_link # Null /\ o.status = "awaiting_payment"

\* C37: of one user's events at most max_requests less than time_window
\* seconds apart are handed to the handler; an event is dropped exactly when
\* max_requests handed-on events of its user are less than time_window old,
\* a dropped event adds no entry to the user's list, and no event touches
\* another user's list.
C37_ThrottleWindow ==
    [][/\ \A u \in ChatIds : Len(passed'[u]) <= max_requests
       /\ verdict'.seen # verdict.seen /\ verdict'.user_id # NullId
          => LET u == verdict'.user_id
                 kept == Recent(user_requests[u], now)
             IN  /\ verdict'.outcome = "dropped" <=> Len(kept) >= max_requests
                 /\ verdict'.outcome = "dropped" <=> Len(passed[u]) >= max_requests
                 /\ verdict'.outcome = "dropped"
                    => user_requests'[u] = kept /\ passed' = passed
                 /\ \A v \in ChatIds \ {u} :
                        /\ user_requests'[v] = user_requests[v]
                        /\ passed'[v] = passed[v]]_vars

\* One user's event was dropped with max_requests of its events in the
\* window, and the other user's events of the same window were handed on.
C37_DroppedWhileOtherPasses ==
    /\ verdict.outcome = "dropped"
    /\ verdict.user_id = 501
    /\ Len(passed[501]) = max_requests
    /\ passed[502] # << >>
    /\ now > 0

Snapshot(o) ==
    <<o.tilda_name, o.tilda_phone, o.address, o.items, o.base_amount,
      o.external_order_id>>

C11_PaymentLinkNeedsAssignedWaiting ==
    [][\A o \in orders :
         (/\ call'.op \in {"set_payment_link", "svc_set_payment_link"}
          /\ call'.order_id = o.id
          /\ claim' = claim
          /\ (call' # call \/ orders' # orders)
          /\ (o.status # "waiting_operator" \/ o.assigned_to = NullId))
         => /\ call'.result # "returned"
            /\ \A n \in orders' :
                 n.id = o.id => /\ n.payment_link = o.payment_link
                                /\ n.status = o.status
      ]_vars

====
